---- MODULE Spec2Model ----
(***************************************************************************)
(* yabgp BGP-LS attribute decoders: AppSpecLinkAttr (1122),                *)
(* FlexAlgorithmDefine (1039) and its sub-TLVs (1040..1044), and           *)
(* MultiTopologyIdentifier (263), with the LinkState registry that         *)
(* dispatches nested sub-TLVs.                                             *)
(*                                                                         *)
(* Bytes objects are sequences of 0..255.  Python values are tagged        *)
(* records: [int |-> n], [str |-> <<chars>>], [none |-> TRUE],             *)
(* [list |-> <<...>>], [dict |-> [...]].  A call either returns            *)
(* [ok |-> TRUE, value |-> v] or raises [ok |-> FALSE, err |-> name].      *)
(***************************************************************************)
EXTENDS Integers, Sequences, FiniteSets, TLC

\* ------------------------------------------------------------------ bounds
\* at most this many sub-TLV envelopes are put on the wire of one container
MaxSubTlvs == 2
\* at most this many trailing bytes are cut off the wire image
MaxCut == 4

\* ------------------------------------------------------------ Python values
PyNone == [none |-> TRUE]
PyInt(n) == [int |-> n]
PyStr(s) == [str |-> s]
PyList(s) == [list |-> s]
PyDict(d) == [dict |-> d]

Returned(v) == [ok |-> TRUE, value |-> v]
Raised(e) == [ok |-> FALSE, err |-> e]

Min(a, b) == IF a < b THEN a ELSE b

\* bytes slicing s[a:b] with 0 <= a <= b: out-of-range bounds are clamped,
\* never an error
Slice(s, a, b) == SubSeq(s, a + 1, Min(b, Len(s)))

\* s[a:]
SliceFrom(s, a) == SubSeq(s, a + 1, Len(s))

\* the unsigned big-endian value of a run of bytes
RECURSIVE BigEndian(_)
BigEndian(b) ==
    IF b = <<>> THEN 0
    ELSE 256 * BigEndian(SubSeq(b, 1, Len(b) - 1)) + b[Len(b)]

\* struct.unpack of one unsigned big-endian field of n bytes ('!B', '!H',
\* '!I', '!Q'): the buffer must have exactly n bytes
struct_unpack(n, buf) ==
    IF Len(buf) # n THEN Raised("struct.error")
    ELSE Returned(BigEndian(buf))

\* struct.unpack('!HH', buf): two 16-bit fields, exactly 4 bytes
struct_unpack_HH(buf) ==
    IF Len(buf) # 4 THEN Raised("struct.error")
    ELSE Returned(<<BigEndian(SubSeq(buf, 1, 2)), BigEndian(SubSeq(buf, 3, 4))>>)

\* struct.unpack('!BBBB', buf): four 8-bit fields, exactly 4 bytes
struct_unpack_BBBB(buf) ==
    IF Len(buf) # 4 THEN Raised("struct.error")
    ELSE Returned(<<buf[1], buf[2], buf[3], buf[4]>>)

HexDigit == <<"0", "1", "2", "3", "4", "5", "6", "7",
              "8", "9", "a", "b", "c", "d", "e", "f">>

\* binascii.b2a_hex: two lower-case hex characters per byte
RECURSIVE b2a_hex(_)
b2a_hex(b) ==
    IF b = <<>> THEN <<>>
    ELSE <<HexDigit[(b[1] \div 16) + 1], HexDigit[(b[1] % 16) + 1]>>
         \o b2a_hex(Tail(b))

\* format(n, 'x'): the shortest lower-case hex numeral of n >= 0
RECURSIVE format_x(_)
format_x(n) ==
    IF n < 16 THEN <<HexDigit[n + 1]>>
    ELSE Append(format_x(n \div 16), HexDigit[(n % 16) + 1])

\* '{:0Wx}'.format(n): format_x(n) left-padded with "0" to at least W chars
RECURSIVE ZeroPad(_, _)
ZeroPad(w, s) == IF Len(s) >= w THEN s ELSE ZeroPad(w, <<"0">> \o s)

\* mutant: the field width is dropped from the format string
format_0x_unpadded(w, n) == <<"0", "x">> \o format_x(n)

format_0x(w, n) == <<"0", "x">> \o ZeroPad(w, format_x(n))

\* str() of a bytes object (Python 3): its repr, b'...'
str_bytes(chars) == <<"b", "'">> \o chars \o <<"'">>

\* ------------------------------------------------------------ the TLV classes
\* class attribute TYPE of each class
AppSpecLinkAttr_TYPE == 1122
FlexAlgorithmDefine_TYPE == 1039
FlexAlgoExcludeAdminGroup_TYPE == 1040
FlexAlgoIncludeAnyAdminGroup_TYPE == 1041
FlexAlgoIncludeAllAdminGroup_TYPE == 1042
FlexAlgoDefinitionFlags_TYPE == 1043
FlexAlgoExcludeSRLG_TYPE == 1044
MultiTopologyIdentifier_TYPE == 263

Classes == <<"MultiTopologyIdentifier", "FlexAlgorithmDefine",
             "FlexAlgoExcludeAdminGroup", "FlexAlgoIncludeAnyAdminGroup",
             "FlexAlgoIncludeAllAdminGroup", "FlexAlgoDefinitionFlags",
             "FlexAlgoExcludeSRLG", "AppSpecLinkAttr">>

TYPE(cls) ==
    CASE cls = "AppSpecLinkAttr" -> AppSpecLinkAttr_TYPE
      [] cls = "FlexAlgorithmDefine" -> FlexAlgorithmDefine_TYPE
      [] cls = "FlexAlgoExcludeAdminGroup" -> FlexAlgoExcludeAdminGroup_TYPE
      [] cls = "FlexAlgoIncludeAnyAdminGroup" -> FlexAlgoIncludeAnyAdminGroup_TYPE
      [] cls = "FlexAlgoIncludeAllAdminGroup" -> FlexAlgoIncludeAllAdminGroup_TYPE
      [] cls = "FlexAlgoDefinitionFlags" -> FlexAlgoDefinitionFlags_TYPE
      [] cls = "FlexAlgoExcludeSRLG" -> FlexAlgoExcludeSRLG_TYPE
      [] cls = "MultiTopologyIdentifier" -> MultiTopologyIdentifier_TYPE

\* class attribute TYPE_STR of each class
TYPE_STR(cls) ==
    CASE cls = "AppSpecLinkAttr" -> "ASLA"
      [] cls = "FlexAlgorithmDefine" -> "flex_algo_defn"
      [] cls = "FlexAlgoExcludeAdminGroup" -> "flex_algo_excl_admin_group"
      [] cls = "FlexAlgoIncludeAnyAdminGroup" -> "flex_algo_incl_any_admin_group"
      [] cls = "FlexAlgoIncludeAllAdminGroup" -> "flex_algo_incl_all_admin_group"
      [] cls = "FlexAlgoDefinitionFlags" -> "flex_algo_defn_flags"
      [] cls = "FlexAlgoExcludeSRLG" -> "flex_algo_excl_srlg"
      [] cls = "MultiTopologyIdentifier" -> "mt_id"

\* cls(value=v): a TLV instance of class cls
TLV_new(cls, v) == [cls |-> cls, value |-> v]

\* TLV.dict(): the instance's value tagged with the class's display name
TLV_dict(inst) ==
    PyDict([type |-> PyStr(TYPE_STR(inst.cls)), value |-> inst.value])

\* mutant: a type code registered twice is taken for a conflict and dropped
LinkState_register_dropping(reg, cls) ==
    IF TYPE(cls) \in DOMAIN reg
    THEN [t \in (DOMAIN reg) \ {TYPE(cls)} |-> reg[t]]
    ELSE [t \in (DOMAIN reg) \cup {TYPE(cls)} |->
            IF t = TYPE(cls) THEN cls ELSE reg[t]]

\* @LinkState.register(): the class is stored under its TYPE; a later
\* registration of the same TYPE replaces the earlier one
LinkState_register(reg, cls) ==
    [t \in (DOMAIN reg) \cup {TYPE(cls)} |->
        IF t = TYPE(cls) THEN cls ELSE reg[t]]

\* the registry once every module of the package has been imported
RECURSIVE RegisterAll(_, _)
RegisterAll(reg, n) ==
    IF n = 0 THEN reg
    ELSE LinkState_register(RegisterAll(reg, n - 1), Classes[n])

EmptyRegistry == [t \in {} |-> "none"]

ImportedRegistry == RegisterAll(EmptyRegistry, Len(Classes))

\* the modules of the package under src/, by file name
Modules == {"app_spec_link_attr", "flex_algo_define", "mt_id"}

\* the classes a module defines under @LinkState.register(), in file order
ModuleClasses(m) ==
    CASE m = "app_spec_link_attr" -> <<"AppSpecLinkAttr">>
      [] m = "flex_algo_define" ->
            <<"FlexAlgorithmDefine", "FlexAlgoExcludeAdminGroup",
              "FlexAlgoIncludeAnyAdminGroup", "FlexAlgoIncludeAllAdminGroup",
              "FlexAlgoDefinitionFlags", "FlexAlgoExcludeSRLG">>
      [] m = "mt_id" -> <<"MultiTopologyIdentifier">>

\* ------------------------------------------------------------ leaf decoders
\* MultiTopologyIdentifier.unpack: the while loop, from the remaining data
\* and the list built so far
RECURSIVE MultiTopologyIdentifier_loop(_, _)
MultiTopologyIdentifier_loop(data, mt_id) ==
    IF data = <<>> THEN Returned(mt_id)
    ELSE LET u == struct_unpack(2, Slice(data, 0, 2))
         IN  IF ~u.ok THEN u
             ELSE MultiTopologyIdentifier_loop(SliceFrom(data, 2),
                                               Append(mt_id, PyInt(u.value)))

MultiTopologyIdentifier_unpack(data) ==
    LET r == MultiTopologyIdentifier_loop(data, <<>>)
    IN  IF ~r.ok THEN r
        ELSE Returned(TLV_new("MultiTopologyIdentifier", PyList(r.value)))

\* for i in range(i, len(data), 4): append struct.unpack('!I', data[i:i+4])
RECURSIVE U32Chunks(_, _, _)
U32Chunks(data, i, acc) ==
    IF i >= Len(data) THEN Returned(acc)
    ELSE LET u == struct_unpack(4, Slice(data, i, i + 4))
         IN  IF ~u.ok THEN u
             ELSE U32Chunks(data, i + 4, Append(acc, PyInt(u.value)))

FlexAlgoExcludeAdminGroup_unpack(data) ==
    LET r == U32Chunks(data, 0, <<>>)
    IN  IF ~r.ok THEN r
        ELSE Returned(TLV_new("FlexAlgoExcludeAdminGroup", PyList(r.value)))

FlexAlgoIncludeAnyAdminGroup_unpack(data) ==
    LET r == U32Chunks(data, 0, <<>>)
    IN  IF ~r.ok THEN r
        ELSE Returned(TLV_new("FlexAlgoIncludeAnyAdminGroup", PyList(r.value)))

FlexAlgoIncludeAllAdminGroup_unpack(data) ==
    LET r == U32Chunks(data, 0, <<>>)
    IN  IF ~r.ok THEN r
        ELSE Returned(TLV_new("FlexAlgoIncludeAllAdminGroup", PyList(r.value)))

FlexAlgoExcludeSRLG_unpack(data) ==
    LET r == U32Chunks(data, 0, <<>>)
    IN  IF ~r.ok THEN r
        ELSE Returned(TLV_new("FlexAlgoExcludeSRLG", PyList(r.value)))

\* mutant: the shift is one bit short
FlexAlgoDefinitionFlags_unpack_shift14(data) ==
    LET u == struct_unpack(2, Slice(data, 0, 2))
    IN  IF ~u.ok THEN u
        ELSE Returned(TLV_new("FlexAlgoDefinitionFlags",
                              PyDict([M |-> PyInt(u.value \div 16384)])))

FlexAlgoDefinitionFlags_unpack(data) ==
    LET u == struct_unpack(2, Slice(data, 0, 2))
    IN  IF ~u.ok THEN u
        ELSE Returned(TLV_new("FlexAlgoDefinitionFlags",
                              PyDict([M |-> PyInt(u.value \div 32768)])))

\* ---------------------------------------------------------------- the state
VARIABLES
    registered_tlvs,    \* LinkState.registered_tlvs: type code -> class
    wire,               \* what the peer put on the wire (input description)
    cls,                \* the class whose unpack is called
    data,               \* the argument of unpack
    pc,                 \* position of the call
    sabm_len, udabm_len, offset, sabm, udabm,   \* locals of AppSpecLinkAttr.unpack
    fixed,              \* flex_algo, metric_type, calc_type, priority
    sub_tlvs_bin_data,  \* the cursor: the bytes not decoded yet
    sub_tlvs,           \* the output list built so far
    result,             \* what the call returned or raised
    range_i,            \* i of "for i in range(0, len(data), 4)"
    items,              \* mt_id / admin_groups / srlg_list built so far
    asn4,               \* ASPath: the caller's asn4 flag
    value,              \* ASPath: the value argument (parse consumes it)
    aspath,             \* ASPath.parse: the list built so far
    aspath_raw,         \* ASPath.construct: the bytes built so far
    segment,            \* ASPath.construct: index of the next segment
    fed,                \* how construct's output was handed to parse
    sys_modules,        \* the modules of the package loaded so far
    reloads,            \* how many times a loaded module was loaded again
    main,               \* the main program: in its import, or serving
    threads,            \* the locals of each decode call in progress
    addpath_list,       \* convert_addpath_str_to_int: the argument
    addpath_int         \* convert_addpath_str_to_int: the list returned

container_vars == <<sabm_len, udabm_len, offset, sabm, udabm, fixed,
                    sub_tlvs_bin_data, sub_tlvs>>

leaf_vars == <<range_i, items>>

aspath_vars == <<asn4, value, aspath, aspath_raw, segment, fed>>

process_vars == <<sys_modules, reloads, main, threads>>

addpath_vars == <<addpath_list, addpath_int>>

vars == <<registered_tlvs, wire, cls, data, pc, result, container_vars,
          leaf_vars, aspath_vars, process_vars, addpath_vars>>

\* ------------------------------------------------------ container decoders
RECURSIVE registered_unpack(_, _)

\* cls.unpack(value).dict(): the dict of the instance, unless unpack raised.
\* (Here and in the operators below that read the outcome of a nested decode
\* more than once, the outcome is bound by a quantifier over a one-element
\* set: it is computed once, as the code computes it once.)
unpack_dict(r) ==
    CHOOSE e \in { IF ~x.ok THEN x ELSE Returned(TLV_dict(x.value)) : x \in {r} } :
        TRUE

\* sub_tlvs.append(entry), then the cursor moves to rest, unless the entry's
\* decoder raised
appended(e, rest) ==
    CHOOSE s \in { IF ~x.ok THEN x
                   ELSE Returned([entry |-> x.value, rest |-> rest]) : x \in {e} } :
        TRUE

\* mutant: a non-zero reserved field is rejected
AppSpecLinkAttr_header_validating(d) ==
    IF Len(d) < 2 THEN Raised("IndexError")
    ELSE IF Len(d) >= 4 /\ (d[3] # 0 \/ d[4] # 0) THEN Raised("ValueError")
    ELSE Returned([sabm_len |-> d[1], udabm_len |-> d[2], offset |-> 4])

\* AppSpecLinkAttr.unpack, fixed header: data[0], data[1], offset = 4
AppSpecLinkAttr_header(d) ==
    IF Len(d) < 2 THEN Raised("IndexError")
    ELSE Returned([sabm_len |-> d[1], udabm_len |-> d[2], offset |-> 4])

\* sabm_bytes = data[offset:offset + sabm_len]
AppSpecLinkAttr_sabm_bytes(d, len, off) == Slice(d, off, off + len)

\* AppSpecLinkAttr.unpack, the SABM block
AppSpecLinkAttr_sabm(d, len, off) ==
    IF len > 0
    THEN LET sabm_bytes == AppSpecLinkAttr_sabm_bytes(d, len, off)
         IN  IF len = 4
             THEN LET u == struct_unpack(4, sabm_bytes)
                  IN  IF ~u.ok THEN u
                      ELSE Returned([mask |-> PyStr(format_0x(8, u.value)),
                                     offset |-> off + len])
             ELSE IF len = 8
             THEN LET u == struct_unpack(8, sabm_bytes)
                  IN  IF ~u.ok THEN u
                      ELSE Returned([mask |-> PyStr(format_0x(16, u.value)),
                                     offset |-> off + len])
             ELSE Returned([mask |-> PyStr(<<"0", "x">> \o b2a_hex(sabm_bytes)),
                            offset |-> off + len])
    ELSE Returned([mask |-> PyNone, offset |-> off])

\* mutant: the UDABM is sliced one byte past the end of the SABM
AppSpecLinkAttr_udabm_bytes_late(d, len, off) == Slice(d, off + 1, off + 1 + len)

\* udabm_bytes = data[offset:offset + udabm_len]
AppSpecLinkAttr_udabm_bytes(d, len, off) == Slice(d, off, off + len)

\* AppSpecLinkAttr.unpack, the UDABM block
AppSpecLinkAttr_udabm(d, len, off) ==
    IF len > 0
    THEN LET udabm_bytes == AppSpecLinkAttr_udabm_bytes(d, len, off)
         IN  IF len = 4
             THEN LET u == struct_unpack(4, udabm_bytes)
                  IN  IF ~u.ok THEN u
                      ELSE Returned([mask |-> PyStr(format_0x(8, u.value)),
                                     offset |-> off + len])
             ELSE IF len = 8
             THEN LET u == struct_unpack(8, udabm_bytes)
                  IN  IF ~u.ok THEN u
                      ELSE Returned([mask |-> PyStr(format_0x(16, u.value)),
                                     offset |-> off + len])
             ELSE Returned([mask |-> PyStr(<<"0", "x">> \o b2a_hex(udabm_bytes)),
                            offset |-> off + len])
    ELSE Returned([mask |-> PyNone, offset |-> off])

\* mutant: a short header is zero-filled instead of rejected
AppSpecLinkAttr_sub_tlv_header_filled(bin) ==
    struct_unpack_HH(Slice(bin \o <<0, 0, 0, 0>>, 0, 4))

\* sub_tlv_type, sub_tlv_len = struct.unpack('!HH', sub_tlvs_bin_data[:4])
AppSpecLinkAttr_sub_tlv_header(bin) == struct_unpack_HH(Slice(bin, 0, 4))

\* mutant: the value slice has no upper bound and runs into the siblings
AppSpecLinkAttr_sub_tlv_value_unbounded(bin, len) == SliceFrom(bin, 4)

\* sub_tlv_value = sub_tlvs_bin_data[4:4 + sub_tlv_len]
AppSpecLinkAttr_sub_tlv_value(bin, len) == Slice(bin, 4, 4 + len)

\* mutant: the cursor advances by the value length only
AppSpecLinkAttr_advance_value_only(bin, len) == SliceFrom(bin, len)

\* sub_tlvs_bin_data = sub_tlvs_bin_data[4 + sub_tlv_len:]
AppSpecLinkAttr_advance(bin, len) == SliceFrom(bin, 4 + len)

\* the record appended for a type no class registers
AppSpecLinkAttr_fallback(t, v) ==
    PyDict([type |-> PyInt(t), value |-> PyStr(str_bytes(b2a_hex(v)))])

\* mutant: a nested decoder's exception is swallowed and the hex record
\* appended instead
AppSpecLinkAttr_dispatch_best_effort(t, v) ==
    IF t \in DOMAIN registered_tlvs
    THEN LET r == registered_unpack(registered_tlvs[t], v)
         IN  IF ~r.ok THEN Returned(AppSpecLinkAttr_fallback(t, v))
             ELSE Returned(TLV_dict(r.value))
    ELSE Returned(AppSpecLinkAttr_fallback(t, v))

\* the if/else of the while body: what is appended for type t and value v
AppSpecLinkAttr_dispatch(t, v) ==
    IF t \in DOMAIN registered_tlvs
    THEN unpack_dict(registered_unpack(registered_tlvs[t], v))
    ELSE Returned(AppSpecLinkAttr_fallback(t, v))

\* AppSpecLinkAttr.unpack, one pass of the while body over the cursor bin:
\* the entry appended and the new cursor, or the exception raised
AppSpecLinkAttr_iter(bin) ==
    LET h == AppSpecLinkAttr_sub_tlv_header(bin)
    IN  IF ~h.ok THEN h
        ELSE LET sub_tlv_type == h.value[1]
                 sub_tlv_len == h.value[2]
                 sub_tlv_value == AppSpecLinkAttr_sub_tlv_value(bin, sub_tlv_len)
             IN  appended(AppSpecLinkAttr_dispatch(sub_tlv_type, sub_tlv_value),
                          AppSpecLinkAttr_advance(bin, sub_tlv_len))

\* AppSpecLinkAttr.unpack, the while loop run to its end
RECURSIVE AppSpecLinkAttr_loop(_, _)
AppSpecLinkAttr_again(s, acc) ==
    IF ~s.ok THEN s
    ELSE AppSpecLinkAttr_loop(s.value.rest, Append(acc, s.value.entry))

AppSpecLinkAttr_loop(bin, acc) ==
    IF bin = <<>> THEN Returned(acc)
    ELSE CHOOSE r \in { AppSpecLinkAttr_again(s, acc) :
                          s \in {AppSpecLinkAttr_iter(bin)} } : TRUE

\* AppSpecLinkAttr.unpack, the return statement
AppSpecLinkAttr_value(sl, sm, ul, um, subs) ==
    TLV_new("AppSpecLinkAttr",
            PyDict([sabm |-> PyDict([len |-> PyInt(sl), value |-> sm]),
                    udabm |-> PyDict([len |-> PyInt(ul), value |-> um]),
                    sub_tlvs |-> PyList(subs)]))

\* the return statement is reached only when the while loop raised nothing
AppSpecLinkAttr_return(sl, sm, ul, um, l) ==
    CHOOSE r \in { IF ~x.ok THEN x
                   ELSE Returned(AppSpecLinkAttr_value(sl, sm, ul, um, x.value))
                   : x \in {l} } : TRUE

\* AppSpecLinkAttr.unpack as one call (the form a parent container invokes)
AppSpecLinkAttr_unpack(d) ==
    LET h == AppSpecLinkAttr_header(d)
    IN  IF ~h.ok THEN h
        ELSE LET s == AppSpecLinkAttr_sabm(d, h.value.sabm_len, h.value.offset)
             IN  IF ~s.ok THEN s
                 ELSE LET u == AppSpecLinkAttr_udabm(d, h.value.udabm_len,
                                                     s.value.offset)
                      IN  IF ~u.ok THEN u
                          ELSE AppSpecLinkAttr_return(
                                   h.value.sabm_len, s.value.mask,
                                   h.value.udabm_len, u.value.mask,
                                   AppSpecLinkAttr_loop(
                                       SliceFrom(d, u.value.offset), <<>>))

\* mutant: a flex_algo outside 128..255 is rejected
FlexAlgorithmDefine_header_range_checked(d) ==
    LET u == struct_unpack_BBBB(Slice(d, 0, 4))
    IN  IF ~u.ok THEN u
        ELSE IF u.value[1] < 128 THEN Raised("ValueError")
        ELSE Returned([flex_algo |-> u.value[1], metric_type |-> u.value[2],
                       calc_type |-> u.value[3], priority |-> u.value[4]])

\* FlexAlgorithmDefine.unpack, the four fixed fields
FlexAlgorithmDefine_header(d) ==
    LET u == struct_unpack_BBBB(Slice(d, 0, 4))
    IN  IF ~u.ok THEN u
        ELSE Returned([flex_algo |-> u.value[1], metric_type |-> u.value[2],
                       calc_type |-> u.value[3], priority |-> u.value[4]])

\* sub_tlvs_type_code, sub_tlvs_length = struct.unpack('!HH', ...[:4])
FlexAlgorithmDefine_sub_tlv_header(bin) == struct_unpack_HH(Slice(bin, 0, 4))

\* sub_tlvs_value = sub_tlvs_bin_data[4: 4 + sub_tlvs_length]
FlexAlgorithmDefine_sub_tlv_value(bin, len) == Slice(bin, 4, 4 + len)

\* mutant: the cursor advances by the value length only
FlexAlgorithmDefine_advance_value_only(bin, len) == SliceFrom(bin, len)

\* sub_tlvs_bin_data = sub_tlvs_bin_data[4 + sub_tlvs_length:]
FlexAlgorithmDefine_advance(bin, len) == SliceFrom(bin, 4 + len)

\* the record appended for a type no class registers
FlexAlgorithmDefine_fallback(t, v) ==
    PyDict([type |-> PyInt(t), value |-> PyStr(str_bytes(b2a_hex(v)))])

\* mutant: the registry is indexed without the membership test
FlexAlgorithmDefine_dispatch_no_fallback(t, v) ==
    IF t \in DOMAIN registered_tlvs
    THEN LET r == registered_unpack(registered_tlvs[t], v)
         IN  IF ~r.ok THEN r ELSE Returned(TLV_dict(r.value))
    ELSE Raised("KeyError")

\* the if/else of the while body: what is appended for type t and value v
FlexAlgorithmDefine_dispatch(t, v) ==
    IF t \in DOMAIN registered_tlvs
    THEN unpack_dict(registered_unpack(registered_tlvs[t], v))
    ELSE Returned(FlexAlgorithmDefine_fallback(t, v))

\* FlexAlgorithmDefine.unpack, one pass of the while body
FlexAlgorithmDefine_iter(bin) ==
    LET h == FlexAlgorithmDefine_sub_tlv_header(bin)
    IN  IF ~h.ok THEN h
        ELSE LET sub_tlvs_type_code == h.value[1]
                 sub_tlvs_length == h.value[2]
                 sub_tlvs_value ==
                     FlexAlgorithmDefine_sub_tlv_value(bin, sub_tlvs_length)
             IN  appended(FlexAlgorithmDefine_dispatch(sub_tlvs_type_code,
                                                       sub_tlvs_value),
                          FlexAlgorithmDefine_advance(bin, sub_tlvs_length))

\* FlexAlgorithmDefine.unpack, the while loop run to its end
RECURSIVE FlexAlgorithmDefine_loop(_, _)
FlexAlgorithmDefine_again(s, acc) ==
    IF ~s.ok THEN s
    ELSE FlexAlgorithmDefine_loop(s.value.rest, Append(acc, s.value.entry))

FlexAlgorithmDefine_loop(bin, acc) ==
    IF bin = <<>> THEN Returned(acc)
    ELSE CHOOSE r \in { FlexAlgorithmDefine_again(s, acc) :
                          s \in {FlexAlgorithmDefine_iter(bin)} } : TRUE

\* FlexAlgorithmDefine.unpack, the return statement
FlexAlgorithmDefine_value(f, subs) ==
    TLV_new("FlexAlgorithmDefine",
            PyDict([flex_algo |-> PyInt(f.flex_algo),
                    metric_type |-> PyInt(f.metric_type),
                    calc_type |-> PyInt(f.calc_type),
                    priority |-> PyInt(f.priority),
                    sub_tlvs |-> PyList(subs)]))

\* the return statement is reached only when the while loop raised nothing
FlexAlgorithmDefine_return(f, l) ==
    CHOOSE r \in { IF ~x.ok THEN x
                   ELSE Returned(FlexAlgorithmDefine_value(f, x.value))
                   : x \in {l} } : TRUE

\* FlexAlgorithmDefine.unpack as one call
FlexAlgorithmDefine_unpack(d) ==
    LET h == FlexAlgorithmDefine_header(d)
    IN  IF ~h.ok THEN h
        ELSE FlexAlgorithmDefine_return(
                 h.value, FlexAlgorithmDefine_loop(SliceFrom(d, 4), <<>>))

\* LinkState.registered_tlvs[t].unpack(value): the class method of the
\* class the registry holds, called on the value b of the argument
registered_unpack(c, d) ==
    CHOOSE r \in
        { CASE c = "AppSpecLinkAttr" -> AppSpecLinkAttr_unpack(b)
            [] c = "FlexAlgorithmDefine" -> FlexAlgorithmDefine_unpack(b)
            [] c = "FlexAlgoExcludeAdminGroup" -> FlexAlgoExcludeAdminGroup_unpack(b)
            [] c = "FlexAlgoIncludeAnyAdminGroup" -> FlexAlgoIncludeAnyAdminGroup_unpack(b)
            [] c = "FlexAlgoIncludeAllAdminGroup" -> FlexAlgoIncludeAllAdminGroup_unpack(b)
            [] c = "FlexAlgoDefinitionFlags" -> FlexAlgoDefinitionFlags_unpack(b)
            [] c = "FlexAlgoExcludeSRLG" -> FlexAlgoExcludeSRLG_unpack(b)
            [] c = "MultiTopologyIdentifier" -> MultiTopologyIdentifier_unpack(b)
          : b \in {d} } : TRUE

\* ------------------------------------------------------------- the inputs
\* a sub-TLV envelope as its sender encodes it: type, length, value
Envelope(t, v) ==
    <<t \div 256, t % 256, Len(v) \div 256, Len(v) % 256>> \o v

RECURSIVE Envelopes(_)
Envelopes(es) ==
    IF es = <<>> THEN <<>>
    ELSE Envelope(es[1].type, es[1].value) \o Envelopes(Tail(es))

\* a type code no class registers
UnknownType == 65535

FadFixed == <<128, 1, 0, 128>>

\* the sub-TLVs a sender may put in a container: unknown and registered
\* types, values the registered decoder accepts and values it rejects, and
\* containers nested one and two levels deep
SubTlvPool ==
    { [type |-> UnknownType, value |-> <<222, 173>>],
      [type |-> UnknownType, value |-> <<>>],
      [type |-> FlexAlgoDefinitionFlags_TYPE, value |-> <<128, 0>>],
      [type |-> FlexAlgoDefinitionFlags_TYPE, value |-> <<1>>],
      [type |-> FlexAlgoExcludeAdminGroup_TYPE, value |-> <<0, 0, 0, 100>>],
      [type |-> FlexAlgoIncludeAllAdminGroup_TYPE, value |-> <<0, 0, 1>>],
      [type |-> MultiTopologyIdentifier_TYPE, value |-> <<0, 2>>],
      [type |-> MultiTopologyIdentifier_TYPE, value |-> <<0, 2, 5>>],
      [type |-> FlexAlgorithmDefine_TYPE,
       value |-> FadFixed
                 \o Envelope(FlexAlgoIncludeAnyAdminGroup_TYPE, <<0, 0, 0, 1>>)
                 \o Envelope(FlexAlgoDefinitionFlags_TYPE, <<128, 0>>)],
      [type |-> FlexAlgorithmDefine_TYPE,
       value |-> FadFixed
                 \o Envelope(FlexAlgoDefinitionFlags_TYPE, <<128, 0>>)
                 \o Envelope(FlexAlgoExcludeSRLG_TYPE, <<0, 0, 1>>)],
      [type |-> AppSpecLinkAttr_TYPE,
       value |-> <<0, 0, 0, 0>>
                 \o Envelope(FlexAlgorithmDefine_TYPE,
                             FadFixed \o Envelope(FlexAlgoDefinitionFlags_TYPE,
                                                  <<1>>))] }

SubTlvLists ==
    UNION { [1..n -> SubTlvPool] : n \in 0..MaxSubTlvs }

\* the bytes of a mask of n bytes
SabmBytes(n) ==
    [i \in 1..n |-> IF i = n THEN 255 ELSE IF i = n - 3 THEN 16 ELSE 0]

UdabmBytes(n) == [i \in 1..n |-> IF i = n THEN 171 ELSE 0]

SabmLens == {0, 3, 4, 8}

UdabmLens == {0, 2, 4, 8}

ReservedFields == {<<0, 0>>, <<255, 1>>}

AslaHead(sl, ul, rsv) ==
    <<sl, ul>> \o rsv \o SabmBytes(sl) \o UdabmBytes(ul)

AslaHeads ==
    { AslaHead(sl, ul, rsv) :
        sl \in SabmLens, ul \in UdabmLens, rsv \in ReservedFields }

FadHeads == { FadFixed, <<5, 2, 1, 255>>, <<0, 255, 127, 0>>, <<255, 0, 128, 1>> }

Heads(c) == IF c = "AppSpecLinkAttr" THEN AslaHeads ELSE FadHeads

Containers == {"AppSpecLinkAttr", "FlexAlgorithmDefine"}

\* the bytes sent: head, then the envelopes, the last cut bytes lost
WireBytes(w) ==
    LET all == w.head \o Envelopes(w.envs)
    IN  SubSeq(all, 1, Len(all) - w.cut)

\* the wire images: every container, head, envelope list and cut
IsWire(w) ==
    /\ w.cls \in Containers
    /\ w.head \in Heads(w.cls)
    /\ w.envs \in SubTlvLists
    /\ w.cut \in 0..MaxCut
    /\ w.cut <= Len(w.head) + Len(Envelopes(w.envs))

\* ------------------------------------------------------------------ actions
\* no leaf decoder is being stepped
leaf_idle ==
    /\ range_i = 0
    /\ items = <<>>

\* no AS_PATH call is in progress
aspath_idle ==
    /\ asn4 = FALSE
    /\ value = <<>>
    /\ aspath = <<>>
    /\ aspath_raw = <<>>
    /\ segment = 0
    /\ fed = "none"

\* the package is imported and no decode call runs on a thread
process_idle ==
    /\ sys_modules = Modules
    /\ reloads = 0
    /\ main = "serve"
    /\ threads = <<>>

\* no add-path conversion is in progress
addpath_idle ==
    /\ addpath_list = <<>>
    /\ addpath_int = <<>>

Init ==
    /\ registered_tlvs = ImportedRegistry
    /\ \E c \in Containers :
         \E h \in Heads(c), es \in SubTlvLists, k \in 0..MaxCut :
            /\ wire = [cls |-> c, head |-> h, envs |-> es, cut |-> k]
            /\ IsWire(wire)
    /\ cls = wire.cls
    /\ data = WireBytes(wire)
    /\ pc = "call"
    /\ sabm_len = 0
    /\ udabm_len = 0
    /\ offset = 0
    /\ sabm = PyNone
    /\ udabm = PyNone
    /\ fixed = [flex_algo |-> 0, metric_type |-> 0, calc_type |-> 0,
                priority |-> 0]
    /\ sub_tlvs_bin_data = <<>>
    /\ sub_tlvs = <<>>
    /\ result = PyNone
    /\ leaf_idle
    /\ aspath_idle
    /\ process_idle
    /\ addpath_idle

Raise(r) ==
    /\ pc' = "raised"
    /\ result' = r

\* AppSpecLinkAttr.unpack: read sabm_len and udabm_len, set offset
AslaHeader ==
    /\ pc = "call"
    /\ cls = "AppSpecLinkAttr"
    /\ LET h == AppSpecLinkAttr_header(data)
       IN  IF h.ok
           THEN /\ sabm_len' = h.value.sabm_len
                /\ udabm_len' = h.value.udabm_len
                /\ offset' = h.value.offset
                /\ pc' = "sabm"
                /\ UNCHANGED result
           ELSE /\ Raise(h)
                /\ UNCHANGED <<sabm_len, udabm_len, offset>>
    /\ UNCHANGED <<registered_tlvs, wire, cls, data, sabm, udabm, fixed,
                   sub_tlvs_bin_data, sub_tlvs>>
    /\ UNCHANGED <<leaf_vars, aspath_vars, process_vars, addpath_vars>>

\* AppSpecLinkAttr.unpack: the SABM
AslaSabm ==
    /\ pc = "sabm"
    /\ LET s == AppSpecLinkAttr_sabm(data, sabm_len, offset)
       IN  IF s.ok
           THEN /\ sabm' = s.value.mask
                /\ offset' = s.value.offset
                /\ pc' = "udabm"
                /\ UNCHANGED result
           ELSE /\ Raise(s)
                /\ UNCHANGED <<sabm, offset>>
    /\ UNCHANGED <<registered_tlvs, wire, cls, data, sabm_len, udabm_len,
                   udabm, fixed, sub_tlvs_bin_data, sub_tlvs>>
    /\ UNCHANGED <<leaf_vars, aspath_vars, process_vars, addpath_vars>>

\* AppSpecLinkAttr.unpack: the UDABM, then the cursor is set to data[offset:]
AslaUdabm ==
    /\ pc = "udabm"
    /\ LET u == AppSpecLinkAttr_udabm(data, udabm_len, offset)
       IN  IF u.ok
           THEN /\ udabm' = u.value.mask
                /\ offset' = u.value.offset
                /\ sub_tlvs_bin_data' = SliceFrom(data, u.value.offset)
                /\ sub_tlvs' = <<>>
                /\ pc' = "loop"
                /\ UNCHANGED result
           ELSE /\ Raise(u)
                /\ UNCHANGED <<udabm, offset, sub_tlvs_bin_data, sub_tlvs>>
    /\ UNCHANGED <<registered_tlvs, wire, cls, data, sabm_len, udabm_len,
                   sabm, fixed>>
    /\ UNCHANGED <<leaf_vars, aspath_vars, process_vars, addpath_vars>>

\* AppSpecLinkAttr.unpack: one pass of the while body
AslaIter ==
    /\ pc = "loop"
    /\ cls = "AppSpecLinkAttr"
    /\ sub_tlvs_bin_data # <<>>
    /\ \E s \in {AppSpecLinkAttr_iter(sub_tlvs_bin_data)} :
           IF s.ok
           THEN /\ sub_tlvs' = Append(sub_tlvs, s.value.entry)
                /\ sub_tlvs_bin_data' = s.value.rest
                /\ UNCHANGED <<pc, result>>
           ELSE /\ Raise(s)
                /\ UNCHANGED <<sub_tlvs, sub_tlvs_bin_data>>
    /\ UNCHANGED <<registered_tlvs, wire, cls, data, sabm_len, udabm_len,
                   offset, sabm, udabm, fixed>>
    /\ UNCHANGED <<leaf_vars, aspath_vars, process_vars, addpath_vars>>

\* AppSpecLinkAttr.unpack: the loop has ended, return the instance
AslaReturn ==
    /\ pc = "loop"
    /\ cls = "AppSpecLinkAttr"
    /\ sub_tlvs_bin_data = <<>>
    /\ pc' = "done"
    /\ result' = Returned(AppSpecLinkAttr_value(sabm_len, sabm, udabm_len,
                                                udabm, sub_tlvs))
    /\ UNCHANGED <<registered_tlvs, wire, cls, data, sabm_len, udabm_len,
                   offset, sabm, udabm, fixed, sub_tlvs_bin_data, sub_tlvs>>
    /\ UNCHANGED <<leaf_vars, aspath_vars, process_vars, addpath_vars>>

\* FlexAlgorithmDefine.unpack: the fixed fields, then the cursor is data[4:]
FadHeader ==
    /\ pc = "call"
    /\ cls = "FlexAlgorithmDefine"
    /\ LET h == FlexAlgorithmDefine_header(data)
       IN  IF h.ok
           THEN /\ fixed' = h.value
                /\ sub_tlvs_bin_data' = SliceFrom(data, 4)
                /\ sub_tlvs' = <<>>
                /\ pc' = "loop"
                /\ UNCHANGED result
           ELSE /\ Raise(h)
                /\ UNCHANGED <<fixed, sub_tlvs_bin_data, sub_tlvs>>
    /\ UNCHANGED <<registered_tlvs, wire, cls, data, sabm_len, udabm_len,
                   offset, sabm, udabm>>
    /\ UNCHANGED <<leaf_vars, aspath_vars, process_vars, addpath_vars>>

\* FlexAlgorithmDefine.unpack: one pass of the while body
FadIter ==
    /\ pc = "loop"
    /\ cls = "FlexAlgorithmDefine"
    /\ sub_tlvs_bin_data # <<>>
    /\ \E s \in {FlexAlgorithmDefine_iter(sub_tlvs_bin_data)} :
           IF s.ok
           THEN /\ sub_tlvs' = Append(sub_tlvs, s.value.entry)
                /\ sub_tlvs_bin_data' = s.value.rest
                /\ UNCHANGED <<pc, result>>
           ELSE /\ Raise(s)
                /\ UNCHANGED <<sub_tlvs, sub_tlvs_bin_data>>
    /\ UNCHANGED <<registered_tlvs, wire, cls, data, sabm_len, udabm_len,
                   offset, sabm, udabm, fixed>>
    /\ UNCHANGED <<leaf_vars, aspath_vars, process_vars, addpath_vars>>

\* FlexAlgorithmDefine.unpack: the loop has ended, return the instance
FadReturn ==
    /\ pc = "loop"
    /\ cls = "FlexAlgorithmDefine"
    /\ sub_tlvs_bin_data = <<>>
    /\ pc' = "done"
    /\ result' = Returned(FlexAlgorithmDefine_value(fixed, sub_tlvs))
    /\ UNCHANGED <<registered_tlvs, wire, cls, data, sabm_len, udabm_len,
                   offset, sabm, udabm, fixed, sub_tlvs_bin_data, sub_tlvs>>
    /\ UNCHANGED <<leaf_vars, aspath_vars, process_vars, addpath_vars>>

Next ==
    \/ AslaHeader
    \/ AslaSabm
    \/ AslaUdabm
    \/ AslaIter
    \/ AslaReturn
    \/ FadHeader
    \/ FadIter
    \/ FadReturn

Spec == Init /\ [][Next]_vars

\* the stepped call and the one-call form of the same method agree
StepsAgree ==
    pc \in {"done", "raised"} => result = registered_unpack(cls, data)

\* ------------------------------------------------------- the AS_PATH codec
PyBytes(b) == [bytes |-> b]

\* the update-message sub-error codes the AS_PATH tests import
ERR_MSG_UPDATE_ATTR_LEN == 5
ERR_MSG_UPDATE_MALFORMED_ASPATH == 11

\* raise UpdateMessageError(sub_error=sub)
UpdateMessageError(sub) ==
    [ok |-> FALSE, err |-> "UpdateMessageError", sub_error |-> sub]

\* AS_SET, AS_SEQUENCE, AS_CONFED_SEQUENCE, AS_CONFED_SET
ASPath_SEGMENT_TYPES == {1, 2, 3, 4}

\* the attribute flag (transitive) and the AS_PATH type code
ASPath_FLAG == 64
ASPath_ID == 2

\* the number of bytes of one ASN under the caller's flag
ASPath_width(a4) == IF a4 THEN 4 ELSE 2

\* the n low-order bytes of v, most significant first
RECURSIVE ToBigEndian(_, _)
ToBigEndian(n, v) ==
    IF n = 0 THEN <<>>
    ELSE Append(ToBigEndian(n - 1, v \div 256), v % 256)

\* struct.pack of one unsigned big-endian field of n bytes: a value that
\* does not fit the field is an error
struct_pack(n, v) ==
    IF v < 0 \/ (n < 4 /\ v >= 256 ^ n) THEN Raised("struct.error")
    ELSE Returned(ToBigEndian(n, v))

\* the count ASNs of width w at the front of body b
RECURSIVE ASPath_asns(_, _, _)
ASPath_asns(b, w, count) ==
    IF count = 0 THEN <<>>
    ELSE <<BigEndian(Slice(b, 0, w))>>
         \o ASPath_asns(SliceFrom(b, w), w, count - 1)

\* both bytes of the segment header remain
ASPath_header_present(v) == Len(v) >= 2

\* mutant: the type is range-checked against the largest defined type only
ASPath_type_valid_upto(t) == t <= 4

\* the segment type is one of the four defined types
ASPath_type_valid(t) == t \in ASPath_SEGMENT_TYPES

\* mutant: a short body is accepted and the ASNs that fit are returned
ASPath_body_present_lenient(v, w, count) == TRUE

\* the count ASNs the header declares all remain
ASPath_body_present(v, w, count) == Len(v) - 2 >= count * w

\* mutant: the width is guessed from the bytes that remain
ASPath_parse_width_detected(v, a4) ==
    IF Len(v) >= 2 /\ Len(v) - 2 >= 4 * v[2] THEN 4 ELSE 2

\* the ASN width parse reads with
ASPath_parse_width(v, a4) == ASPath_width(a4)

\* ASPath.parse, one pass of the loop over the remaining bytes v: the pair
\* appended and the bytes left, or the error raised
ASPath_parse_segment(v, a4) ==
    IF ~ASPath_header_present(v)
    THEN UpdateMessageError(ERR_MSG_UPDATE_ATTR_LEN)
    ELSE LET seg_type == v[1]
             count == v[2]
             w == ASPath_parse_width(v, a4)
         IN  IF ~ASPath_type_valid(seg_type)
             THEN UpdateMessageError(ERR_MSG_UPDATE_MALFORMED_ASPATH)
             ELSE IF ~ASPath_body_present(v, w, count)
             THEN UpdateMessageError(ERR_MSG_UPDATE_ATTR_LEN)
             ELSE Returned(
                    [entry |-> <<seg_type,
                                 ASPath_asns(Slice(v, 2, 2 + count * w), w,
                                             count)>>,
                     rest |-> SliceFrom(v, 2 + count * w)])

\* the ASNs of one segment, each at the width w, or the packing error
RECURSIVE ASPath_pack_asns(_, _)
ASPath_pack_asns(asns, w) ==
    IF asns = <<>> THEN Returned(<<>>)
    ELSE LET p == struct_pack(w, asns[1])
             q == ASPath_pack_asns(Tail(asns), w)
         IN  IF ~p.ok THEN p
             ELSE IF ~q.ok THEN q
             ELSE Returned(p.value \o q.value)

\* mutant: the count byte is the number of body bytes of the segment
ASPath_segment_count_bytes(asns, w) == struct_pack(1, w * Len(asns))

\* the count byte of a segment: the number of its ASNs
ASPath_segment_count(asns, w) == struct_pack(1, Len(asns))

\* ASPath.construct, one pass of the loop: the bytes of one segment
ASPath_construct_segment(seg, a4) ==
    LET t == struct_pack(1, seg[1])
        c == ASPath_segment_count(seg[2], ASPath_width(a4))
        b == ASPath_pack_asns(seg[2], ASPath_width(a4))
    IN  IF ~t.ok THEN t
        ELSE IF ~c.ok THEN c
        ELSE IF ~b.ok THEN b
        ELSE Returned(t.value \o c.value \o b.value)

\* the attribute length: the number of body bytes
ASPath_attr_len(raw) == Len(raw)

\* the standard attribute header: flags, type code, then the length in one
\* byte, or in two with the extended-length flag when it exceeds 255
ASPath_header(raw) ==
    IF ASPath_attr_len(raw) < 256
    THEN <<ASPath_FLAG, ASPath_ID, ASPath_attr_len(raw)>>
    ELSE <<ASPath_FLAG + 16, ASPath_ID>> \o ToBigEndian(2, ASPath_attr_len(raw))

\* mutant: the receiver hands over the attribute with its header still on
attribute_value_unstripped(attr) == attr

\* the value of an attribute as the update parser hands it to ASPath.parse:
\* the bytes the length field counts, after the header
attribute_value(attr) ==
    IF (attr[1] \div 16) % 2 = 1
    THEN Slice(attr, 4, 4 + BigEndian(SubSeq(attr, 3, 4)))
    ELSE Slice(attr, 3, 3 + attr[3])

\* ------------------------------------------------------- AS_PATH inputs
\* at most this many segments in one path
MaxSegments == 2

\* segments as the caller gives them: (segment_type, asns)
SegmentPool ==
    { <<2, <<3257, 31027>>>>,
      <<1, <<100>>>>,
      <<3, <<>>>>,
      <<4, <<1001, 1002>>>>,
      <<3, <<0, 65535, 300>>>>,
      <<2, <<196618>>>>,
      <<1, <<2147483647, 65536>>>> }

Paths == UNION {[1..n -> SegmentPool] : n \in 0..MaxSegments}

\* every ASN of the path fits the width
FitsWidth(path, a4) ==
    \A s \in 1..Len(path) : \A k \in 1..Len(path[s][2]) :
        a4 \/ path[s][2][k] < 65536

\* segment types no AS_PATH defines
BadTypes == {0, 5}

\* the wire image of one segment, encoded by the sender at width w, with
\* type byte t
SegmentBytes(t, asns, w) ==
    <<t, Len(asns)>> \o ASPath_pack_asns(asns, w).value

RECURSIVE PathBytes(_, _, _, _)
PathBytes(path, w, bad, badtype) ==
    IF path = <<>> THEN <<>>
    ELSE SegmentBytes(IF bad = 1 THEN badtype ELSE path[1][1], path[1][2], w)
         \o PathBytes(Tail(path), w, bad - 1, badtype)

\* the buffer a peer sends: the path encoded at the sender's width, the type
\* byte of segment bad (if any) replaced, the last cut bytes lost
ASPathWireBytes(w) ==
    LET b == PathBytes(w.path, ASPath_width(w.enc4), w.bad, w.badtype)
    IN  SubSeq(b, 1, Len(b) - w.cut)

IsASPathWire(w) ==
    /\ FitsWidth(w.path, w.enc4)
    /\ w.bad <= Len(w.path)
    /\ w.bad = 0 => w.badtype = 0
    /\ w.bad > 0 => w.badtype \in BadTypes
    /\ w.cut <= Len(PathBytes(w.path, ASPath_width(w.enc4), w.bad, w.badtype))
    /\ w.op = "construct" => (w.bad = 0 /\ w.cut = 0)

\* ------------------------------------------------------ AS_PATH actions
InitASPath ==
    /\ registered_tlvs = ImportedRegistry
    /\ \E o \in {"parse", "construct"}, p \in Paths, e \in BOOLEAN,
          b \in 0..MaxSegments, t \in {0} \cup BadTypes, k \in 0..MaxCut :
            /\ wire = [cls |-> "ASPath", op |-> o, path |-> p, enc4 |-> e,
                       bad |-> b, badtype |-> t, cut |-> k]
            /\ IsASPathWire(wire)
    /\ cls = "ASPath"
    /\ asn4 \in BOOLEAN
    /\ wire.op = "construct" => asn4 = wire.enc4
    /\ pc = wire.op
    /\ data = IF wire.op = "parse" THEN ASPathWireBytes(wire) ELSE <<>>
    /\ value = IF wire.op = "parse" THEN data ELSE wire.path
    /\ aspath = <<>>
    /\ aspath_raw = <<>>
    /\ segment = IF wire.op = "construct" THEN 1 ELSE 0
    /\ fed = "none"
    /\ result = PyNone
    /\ sabm_len = 0
    /\ udabm_len = 0
    /\ offset = 0
    /\ sabm = PyNone
    /\ udabm = PyNone
    /\ fixed = [flex_algo |-> 0, metric_type |-> 0, calc_type |-> 0,
                priority |-> 0]
    /\ sub_tlvs_bin_data = <<>>
    /\ sub_tlvs = <<>>
    /\ leaf_idle
    /\ process_idle
    /\ addpath_idle

\* ASPath.parse: one pass of the loop
ASPathParseSegment ==
    /\ pc = "parse"
    /\ value # <<>>
    /\ \E s \in {ASPath_parse_segment(value, asn4)} :
           IF s.ok
           THEN /\ aspath' = Append(aspath, s.value.entry)
                /\ value' = s.value.rest
                /\ UNCHANGED <<pc, result>>
           ELSE /\ Raise(s)
                /\ UNCHANGED <<aspath, value>>
    /\ UNCHANGED <<registered_tlvs, wire, cls, data, asn4, aspath_raw,
                   segment, fed, container_vars, leaf_vars,
                   process_vars, addpath_vars>>

\* ASPath.parse: the buffer is used up, return the list
ASPathParseReturn ==
    /\ pc = "parse"
    /\ value = <<>>
    /\ pc' = "done"
    /\ result' = Returned(PyList(aspath))
    /\ UNCHANGED <<registered_tlvs, wire, cls, data, aspath_vars,
                   container_vars, leaf_vars,
                   process_vars, addpath_vars>>

\* ASPath.construct: one pass of the loop over the segments of value
ASPathConstructSegment ==
    /\ pc = "construct"
    /\ segment <= Len(value)
    /\ \E s \in {ASPath_construct_segment(value[segment], asn4)} :
           IF s.ok
           THEN /\ aspath_raw' = aspath_raw \o s.value
                /\ segment' = segment + 1
                /\ UNCHANGED <<pc, result>>
           ELSE /\ Raise(s)
                /\ UNCHANGED <<aspath_raw, segment>>
    /\ UNCHANGED <<registered_tlvs, wire, cls, data, asn4, value, aspath,
                   fed, container_vars, leaf_vars,
                   process_vars, addpath_vars>>

\* ASPath.construct: all segments are emitted, return header and body
ASPathConstructReturn ==
    /\ pc = "construct"
    /\ segment > Len(value)
    /\ pc' = "constructed"
    /\ result' = Returned(PyBytes(ASPath_header(aspath_raw) \o aspath_raw))
    /\ UNCHANGED <<registered_tlvs, wire, cls, data, aspath_vars,
                   container_vars, leaf_vars,
                   process_vars, addpath_vars>>

\* a caller passes everything construct returned to ASPath.parse, with the
\* same asn4 flag
ASPathParseConstructed ==
    /\ pc = "constructed"
    /\ fed = "none"
    /\ pc' = "parse"
    /\ fed' = "whole"
    /\ data' = result.value.bytes
    /\ value' = result.value.bytes
    /\ aspath' = <<>>
    /\ UNCHANGED <<registered_tlvs, wire, cls, result, asn4, aspath_raw,
                   segment, container_vars, leaf_vars,
                   process_vars, addpath_vars>>

\* the attribute goes over the wire and the receiving update parser passes
\* its value to ASPath.parse, with the same asn4 flag
ASPathParseAttributeValue ==
    /\ pc = "constructed"
    /\ fed = "none"
    /\ pc' = "parse"
    /\ fed' = "value"
    /\ data' = attribute_value(result.value.bytes)
    /\ value' = attribute_value(result.value.bytes)
    /\ aspath' = <<>>
    /\ UNCHANGED <<registered_tlvs, wire, cls, result, asn4, aspath_raw,
                   segment, container_vars, leaf_vars,
                   process_vars, addpath_vars>>

NextASPath ==
    \/ ASPathParseSegment
    \/ ASPathParseReturn
    \/ ASPathConstructSegment
    \/ ASPathConstructReturn
    \/ ASPathParseConstructed
    \/ ASPathParseAttributeValue

SpecASPath == InitASPath /\ [][NextASPath]_vars

\* ------------------------------------------------- leaf decoders, stepped
\* mutant: every pass reads the first group again
FlexAlgoExcludeAdminGroup_chunk_first(d, at) == struct_unpack(4, Slice(d, 0, 4))

\* FlexAlgoExcludeAdminGroup.unpack: struct.unpack('!I', data[i:i+4])
FlexAlgoExcludeAdminGroup_chunk(d, at) == struct_unpack(4, Slice(d, at, at + 4))

\* FlexAlgoIncludeAnyAdminGroup.unpack: struct.unpack('!I', data[i:i+4])
FlexAlgoIncludeAnyAdminGroup_chunk(d, at) ==
    struct_unpack(4, Slice(d, at, at + 4))

\* FlexAlgoIncludeAllAdminGroup.unpack: struct.unpack('!I', data[i:i+4])
FlexAlgoIncludeAllAdminGroup_chunk(d, at) ==
    struct_unpack(4, Slice(d, at, at + 4))

\* mutant: a short last group is zero-filled to 4 bytes
FlexAlgoExcludeSRLG_chunk_filled(d, at) ==
    struct_unpack(4, Slice(Slice(d, at, at + 4) \o <<0, 0, 0>>, 0, 4))

\* FlexAlgoExcludeSRLG.unpack: struct.unpack('!I', data[i:i+4])
FlexAlgoExcludeSRLG_chunk(d, at) == struct_unpack(4, Slice(d, at, at + 4))

\* mutant: a lone last byte is read as an 8-bit value
MultiTopologyIdentifier_chunk_short(d) ==
    IF Len(d) = 1 THEN struct_unpack(1, d) ELSE struct_unpack(2, Slice(d, 0, 2))

\* MultiTopologyIdentifier.unpack: struct.unpack('!H', data[:2])
MultiTopologyIdentifier_chunk(d) == struct_unpack(2, Slice(d, 0, 2))

\* mutant: the four reserved bits are masked off
MultiTopologyIdentifier_entry_masked(v) == PyInt(v % 4096)

\* MultiTopologyIdentifier.unpack: the value appended, [0] of the unpack
MultiTopologyIdentifier_entry(v) == PyInt(v)

\* the classes whose unpack walks data in 4-byte groups
U32ListClasses ==
    {"FlexAlgoExcludeAdminGroup", "FlexAlgoIncludeAnyAdminGroup",
     "FlexAlgoIncludeAllAdminGroup", "FlexAlgoExcludeSRLG"}

LeafClasses ==
    U32ListClasses \cup {"MultiTopologyIdentifier", "FlexAlgoDefinitionFlags"}

\* one pass of a for loop over range(0, len(data), 4) whose body appends
\* the group u, or raises what the unpack of the group raised
RangeLoopPass(u) ==
    IF u.ok
    THEN /\ items' = Append(items, PyInt(u.value))
         /\ range_i' = range_i + 4
         /\ UNCHANGED <<pc, result>>
    ELSE /\ Raise(u)
         /\ UNCHANGED <<items, range_i>>

\* ------------------------------------------------------------ leaf inputs
\* at most this many bytes are given to a leaf decoder
MaxLeafBytes == 8

LeafByteValues == {0, 128, 255}

\* the most significant byte of a 32-bit group is kept 0, so that every
\* value a decoder produces is below 2^31
LeafInput(c, b) ==
    c \in U32ListClasses => \A j \in 1..Len(b) : (j % 4 = 1 => b[j] = 0)

\* ----------------------------------------------------------- leaf actions
InitLeaf ==
    /\ registered_tlvs = ImportedRegistry
    /\ \E c \in LeafClasses, n \in 0..MaxLeafBytes :
         \E b \in [1..n -> LeafByteValues] :
            /\ LeafInput(c, b)
            /\ wire = [cls |-> c, head |-> b, envs |-> <<>>, cut |-> 0]
    /\ cls = wire.cls
    /\ data = wire.head
    /\ pc = "loop"
    /\ range_i = 0
    /\ items = <<>>
    /\ result = PyNone
    /\ sabm_len = 0
    /\ udabm_len = 0
    /\ offset = 0
    /\ sabm = PyNone
    /\ udabm = PyNone
    /\ fixed = [flex_algo |-> 0, metric_type |-> 0, calc_type |-> 0,
                priority |-> 0]
    /\ sub_tlvs_bin_data = <<>>
    /\ sub_tlvs = <<>>
    /\ aspath_idle
    /\ process_idle
    /\ addpath_idle

\* the return statement of a list decoder: cls(value=items)
LeafReturn(c) ==
    /\ pc' = "done"
    /\ result' = Returned(TLV_new(c, PyList(items)))
    /\ UNCHANGED <<registered_tlvs, wire, cls, data, leaf_vars,
                   container_vars, aspath_vars,
                   process_vars, addpath_vars>>

\* FlexAlgoExcludeAdminGroup.unpack: one pass of the for loop
ExcludeAdminGroupPass ==
    /\ pc = "loop"
    /\ cls = "FlexAlgoExcludeAdminGroup"
    /\ range_i < Len(data)
    /\ RangeLoopPass(FlexAlgoExcludeAdminGroup_chunk(data, range_i))
    /\ UNCHANGED <<registered_tlvs, wire, cls, data, container_vars,
                   aspath_vars,
                   process_vars, addpath_vars>>

ExcludeAdminGroupReturn ==
    /\ pc = "loop"
    /\ cls = "FlexAlgoExcludeAdminGroup"
    /\ range_i >= Len(data)
    /\ LeafReturn("FlexAlgoExcludeAdminGroup")

\* FlexAlgoIncludeAnyAdminGroup.unpack: one pass of the for loop
IncludeAnyAdminGroupPass ==
    /\ pc = "loop"
    /\ cls = "FlexAlgoIncludeAnyAdminGroup"
    /\ range_i < Len(data)
    /\ RangeLoopPass(FlexAlgoIncludeAnyAdminGroup_chunk(data, range_i))
    /\ UNCHANGED <<registered_tlvs, wire, cls, data, container_vars,
                   aspath_vars,
                   process_vars, addpath_vars>>

IncludeAnyAdminGroupReturn ==
    /\ pc = "loop"
    /\ cls = "FlexAlgoIncludeAnyAdminGroup"
    /\ range_i >= Len(data)
    /\ LeafReturn("FlexAlgoIncludeAnyAdminGroup")

\* FlexAlgoIncludeAllAdminGroup.unpack: one pass of the for loop
IncludeAllAdminGroupPass ==
    /\ pc = "loop"
    /\ cls = "FlexAlgoIncludeAllAdminGroup"
    /\ range_i < Len(data)
    /\ RangeLoopPass(FlexAlgoIncludeAllAdminGroup_chunk(data, range_i))
    /\ UNCHANGED <<registered_tlvs, wire, cls, data, container_vars,
                   aspath_vars,
                   process_vars, addpath_vars>>

IncludeAllAdminGroupReturn ==
    /\ pc = "loop"
    /\ cls = "FlexAlgoIncludeAllAdminGroup"
    /\ range_i >= Len(data)
    /\ LeafReturn("FlexAlgoIncludeAllAdminGroup")

\* FlexAlgoExcludeSRLG.unpack: one pass of the for loop
ExcludeSRLGPass ==
    /\ pc = "loop"
    /\ cls = "FlexAlgoExcludeSRLG"
    /\ range_i < Len(data)
    /\ RangeLoopPass(FlexAlgoExcludeSRLG_chunk(data, range_i))
    /\ UNCHANGED <<registered_tlvs, wire, cls, data, container_vars,
                   aspath_vars,
                   process_vars, addpath_vars>>

ExcludeSRLGReturn ==
    /\ pc = "loop"
    /\ cls = "FlexAlgoExcludeSRLG"
    /\ range_i >= Len(data)
    /\ LeafReturn("FlexAlgoExcludeSRLG")

\* MultiTopologyIdentifier.unpack: one pass of the while loop
MultiTopologyIdentifierPass ==
    /\ pc = "loop"
    /\ cls = "MultiTopologyIdentifier"
    /\ data # <<>>
    /\ \E u \in {MultiTopologyIdentifier_chunk(data)} :
           IF u.ok
           THEN /\ items' = Append(items, MultiTopologyIdentifier_entry(u.value))
                /\ data' = SliceFrom(data, 2)
                /\ UNCHANGED <<pc, result>>
           ELSE /\ Raise(u)
                /\ UNCHANGED <<items, data>>
    /\ UNCHANGED <<registered_tlvs, wire, cls, range_i, container_vars,
                   aspath_vars,
                   process_vars, addpath_vars>>

MultiTopologyIdentifierReturn ==
    /\ pc = "loop"
    /\ cls = "MultiTopologyIdentifier"
    /\ data = <<>>
    /\ LeafReturn("MultiTopologyIdentifier")

\* FlexAlgoDefinitionFlags.unpack: the whole method, it has no loop
DefinitionFlagsUnpack ==
    /\ pc = "loop"
    /\ cls = "FlexAlgoDefinitionFlags"
    /\ \E r \in {FlexAlgoDefinitionFlags_unpack(data)} :
           /\ pc' = IF r.ok THEN "done" ELSE "raised"
           /\ result' = r
    /\ UNCHANGED <<registered_tlvs, wire, cls, data, leaf_vars,
                   container_vars, aspath_vars,
                   process_vars, addpath_vars>>

NextLeaf ==
    \/ ExcludeAdminGroupPass
    \/ ExcludeAdminGroupReturn
    \/ IncludeAnyAdminGroupPass
    \/ IncludeAnyAdminGroupReturn
    \/ IncludeAllAdminGroupPass
    \/ IncludeAllAdminGroupReturn
    \/ ExcludeSRLGPass
    \/ ExcludeSRLGReturn
    \/ MultiTopologyIdentifierPass
    \/ MultiTopologyIdentifierReturn
    \/ DefinitionFlagsUnpack

SpecLeaf == InitLeaf /\ [][NextLeaf]_vars

\* the stepped decoder and the one-call form a container invokes agree
LeafStepsAgree ==
    (cls \in LeafClasses /\ pc \in {"done", "raised"})
    => result = registered_unpack(cls, wire.head)

\* ------------------------------------- the process: import, then decode calls
\* a loaded module is loaded again at most this many times
MaxReloads == 1

\* at most this many decode calls run at the same time
NumCalls == 2

\* the decorators of a module run in file order as the module is executed
RECURSIVE RegisterClasses(_, _, _)
RegisterClasses(reg, cs, n) ==
    IF n = 0 THEN reg
    ELSE LinkState_register(RegisterClasses(reg, cs, n - 1), cs[n])

\* executing module m, for the first time or again
load_module(reg, m) ==
    RegisterClasses(reg, ModuleClasses(m), Len(ModuleClasses(m)))

\* mutant: the import returns once any module of the package is loaded
package_imported_partly == sys_modules # {}

\* the import statement of a caller returns once the package has executed
\* every module
package_imported == sys_modules = Modules

\* the locals of a call of c.unpack(b) at its entry; buffer is the caller's
\* bytes object, data the callee's name for it
Locals(c, b) ==
    [cls |-> c, buffer |-> b, data |-> b,
     pc |-> IF c \in Containers THEN "call" ELSE "loop",
     sabm_len |-> 0, udabm_len |-> 0, offset |-> 0,
     sabm |-> PyNone, udabm |-> PyNone,
     fixed |-> [flex_algo |-> 0, metric_type |-> 0, calc_type |-> 0,
                priority |-> 0],
     sub_tlvs_bin_data |-> <<>>, sub_tlvs |-> <<>>,
     range_i |-> 0, items |-> <<>>, result |-> PyNone]

\* a thread that has not called yet
NoCall == [Locals("none", <<>>) EXCEPT !.pc = "idle"]

\* mutant: sub_tlvs is one list shared by all calls; a call appends to what
\* the first call built
frame_shared_list(k) == [threads[k] EXCEPT !.sub_tlvs = threads[1].sub_tlvs]

\* the locals call k reads and writes: its own
frame(k) == threads[k]

\* the call ends with the exception r
call_raises(l, r) == [l EXCEPT !.pc = "raised", !.result = r]

\* the call ends returning the instance v
call_returns(l, v) == [l EXCEPT !.pc = "done", !.result = Returned(v)]

\* AppSpecLinkAttr.unpack on locals l: after the header read h
AppSpecLinkAttr_at_call(l, h) ==
    IF ~h.ok THEN call_raises(l, h)
    ELSE [l EXCEPT !.sabm_len = h.value.sabm_len,
                   !.udabm_len = h.value.udabm_len,
                   !.offset = h.value.offset,
                   !.pc = "sabm"]

\* after the SABM block s
AppSpecLinkAttr_at_sabm(l, s) ==
    IF ~s.ok THEN call_raises(l, s)
    ELSE [l EXCEPT !.sabm = s.value.mask, !.offset = s.value.offset,
                   !.pc = "udabm"]

\* after the UDABM block u: the cursor is set to data[offset:]
AppSpecLinkAttr_at_udabm(l, u) ==
    IF ~u.ok THEN call_raises(l, u)
    ELSE [l EXCEPT !.udabm = u.value.mask, !.offset = u.value.offset,
                   !.sub_tlvs_bin_data = SliceFrom(l.data, u.value.offset),
                   !.sub_tlvs = <<>>,
                   !.pc = "loop"]

\* after one pass s of the while body
AppSpecLinkAttr_at_loop(l, s) ==
    CHOOSE n \in { IF ~x.ok THEN call_raises(l, x)
                   ELSE [l EXCEPT !.sub_tlvs = Append(@, x.value.entry),
                                  !.sub_tlvs_bin_data = x.value.rest]
                   : x \in {s} } : TRUE

\* AppSpecLinkAttr.unpack: the next step of the call with locals l
AppSpecLinkAttr_step(l) ==
    CASE l.pc = "call" ->
            AppSpecLinkAttr_at_call(l, AppSpecLinkAttr_header(l.data))
      [] l.pc = "sabm" ->
            AppSpecLinkAttr_at_sabm(
                l, AppSpecLinkAttr_sabm(l.data, l.sabm_len, l.offset))
      [] l.pc = "udabm" ->
            AppSpecLinkAttr_at_udabm(
                l, AppSpecLinkAttr_udabm(l.data, l.udabm_len, l.offset))
      [] l.pc = "loop" ->
            IF l.sub_tlvs_bin_data = <<>>
            THEN call_returns(l, AppSpecLinkAttr_value(
                                     l.sabm_len, l.sabm, l.udabm_len, l.udabm,
                                     l.sub_tlvs))
            ELSE AppSpecLinkAttr_at_loop(
                     l, AppSpecLinkAttr_iter(l.sub_tlvs_bin_data))

\* FlexAlgorithmDefine.unpack on locals l: after the fixed fields h
FlexAlgorithmDefine_at_call(l, h) ==
    IF ~h.ok THEN call_raises(l, h)
    ELSE [l EXCEPT !.fixed = h.value,
                   !.sub_tlvs_bin_data = SliceFrom(l.data, 4),
                   !.sub_tlvs = <<>>,
                   !.pc = "loop"]

\* after one pass s of the while body
FlexAlgorithmDefine_at_loop(l, s) ==
    CHOOSE n \in { IF ~x.ok THEN call_raises(l, x)
                   ELSE [l EXCEPT !.sub_tlvs = Append(@, x.value.entry),
                                  !.sub_tlvs_bin_data = x.value.rest]
                   : x \in {s} } : TRUE

\* FlexAlgorithmDefine.unpack: the next step of the call with locals l
FlexAlgorithmDefine_step(l) ==
    CASE l.pc = "call" ->
            FlexAlgorithmDefine_at_call(l, FlexAlgorithmDefine_header(l.data))
      [] l.pc = "loop" ->
            IF l.sub_tlvs_bin_data = <<>>
            THEN call_returns(l, FlexAlgorithmDefine_value(l.fixed, l.sub_tlvs))
            ELSE FlexAlgorithmDefine_at_loop(
                     l, FlexAlgorithmDefine_iter(l.sub_tlvs_bin_data))

\* one pass of "for i in range(0, len(data), 4)" whose group unpacked as u
U32List_at_loop(l, u) ==
    IF ~u.ok THEN call_raises(l, u)
    ELSE [l EXCEPT !.items = Append(@, PyInt(u.value)), !.range_i = @ + 4]

\* FlexAlgoExcludeAdminGroup.unpack: the next step of the call
FlexAlgoExcludeAdminGroup_step(l) ==
    IF l.range_i >= Len(l.data)
    THEN call_returns(l, TLV_new("FlexAlgoExcludeAdminGroup", PyList(l.items)))
    ELSE U32List_at_loop(l, FlexAlgoExcludeAdminGroup_chunk(l.data, l.range_i))

\* FlexAlgoIncludeAnyAdminGroup.unpack: the next step of the call
FlexAlgoIncludeAnyAdminGroup_step(l) ==
    IF l.range_i >= Len(l.data)
    THEN call_returns(l, TLV_new("FlexAlgoIncludeAnyAdminGroup",
                                 PyList(l.items)))
    ELSE U32List_at_loop(l, FlexAlgoIncludeAnyAdminGroup_chunk(l.data,
                                                               l.range_i))

\* FlexAlgoIncludeAllAdminGroup.unpack: the next step of the call
FlexAlgoIncludeAllAdminGroup_step(l) ==
    IF l.range_i >= Len(l.data)
    THEN call_returns(l, TLV_new("FlexAlgoIncludeAllAdminGroup",
                                 PyList(l.items)))
    ELSE U32List_at_loop(l, FlexAlgoIncludeAllAdminGroup_chunk(l.data,
                                                               l.range_i))

\* FlexAlgoExcludeSRLG.unpack: the next step of the call
FlexAlgoExcludeSRLG_step(l) ==
    IF l.range_i >= Len(l.data)
    THEN call_returns(l, TLV_new("FlexAlgoExcludeSRLG", PyList(l.items)))
    ELSE U32List_at_loop(l, FlexAlgoExcludeSRLG_chunk(l.data, l.range_i))

\* FlexAlgoDefinitionFlags.unpack: the whole method, it has no loop
FlexAlgoDefinitionFlags_ends(l, r) ==
    [l EXCEPT !.pc = IF r.ok THEN "done" ELSE "raised", !.result = r]

FlexAlgoDefinitionFlags_step(l) ==
    FlexAlgoDefinitionFlags_ends(l, FlexAlgoDefinitionFlags_unpack(l.data))

\* mutant: the pass consumes the caller's buffer in place (del data[:2])
MultiTopologyIdentifier_at_loop_in_place(l, u) ==
    IF ~u.ok THEN call_raises(l, u)
    ELSE [l EXCEPT !.items = Append(@, MultiTopologyIdentifier_entry(u.value)),
                   !.data = SliceFrom(@, 2),
                   !.buffer = SliceFrom(@, 2)]

\* MultiTopologyIdentifier.unpack: one pass of the while body, the pair
\* unpacked as u; data is rebound to data[2:]
MultiTopologyIdentifier_at_loop(l, u) ==
    IF ~u.ok THEN call_raises(l, u)
    ELSE [l EXCEPT !.items = Append(@, MultiTopologyIdentifier_entry(u.value)),
                   !.data = SliceFrom(@, 2)]

\* MultiTopologyIdentifier.unpack: the next step of the call
MultiTopologyIdentifier_step(l) ==
    IF l.data = <<>>
    THEN call_returns(l, TLV_new("MultiTopologyIdentifier", PyList(l.items)))
    ELSE MultiTopologyIdentifier_at_loop(
             l, MultiTopologyIdentifier_chunk(l.data))

\* the buffers the decode calls are given: containers that return and that
\* raise, with an unknown sub-TLV, a zero-length sub-TLV and a container
\* nested in a container, and leaf values that return and that raise
CallPool ==
    { [cls |-> "AppSpecLinkAttr",
       bytes |-> AslaHead(4, 0, <<255, 1>>)
                 \o Envelope(UnknownType, <<222, 173>>)
                 \o Envelope(FlexAlgorithmDefine_TYPE,
                             FadFixed \o Envelope(FlexAlgoDefinitionFlags_TYPE,
                                                  <<128, 0>>))],
      [cls |-> "FlexAlgorithmDefine",
       bytes |-> FadFixed
                 \o Envelope(UnknownType, <<>>)
                 \o Envelope(FlexAlgoExcludeAdminGroup_TYPE, <<0, 0, 0, 100>>)],
      [cls |-> "FlexAlgorithmDefine",
       bytes |-> <<5, 2, 1, 255>>
                 \o Envelope(AppSpecLinkAttr_TYPE,
                             <<0, 0, 0, 0>>
                             \o Envelope(FlexAlgoDefinitionFlags_TYPE,
                                         <<128, 0>>))
                 \o <<1, 2>>],
      [cls |-> "MultiTopologyIdentifier", bytes |-> <<0, 2, 255, 255>>],
      [cls |-> "FlexAlgoExcludeAdminGroup",
       bytes |-> <<0, 0, 0, 100>>],
      [cls |-> "FlexAlgoIncludeAnyAdminGroup", bytes |-> <<0, 0, 0, 1>>],
      [cls |-> "FlexAlgoIncludeAllAdminGroup", bytes |-> <<0, 0, 1>>],
      [cls |-> "FlexAlgoExcludeSRLG", bytes |-> <<0, 0, 0, 7, 0, 1>>],
      [cls |-> "FlexAlgoDefinitionFlags", bytes |-> <<128, 0>>] }

\* no call of the stepped single-call specifications is in progress
call_idle ==
    /\ wire = [cls |-> "none"]
    /\ cls = "none"
    /\ data = <<>>
    /\ pc = "idle"
    /\ result = PyNone
    /\ sabm_len = 0
    /\ udabm_len = 0
    /\ offset = 0
    /\ sabm = PyNone
    /\ udabm = PyNone
    /\ fixed = [flex_algo |-> 0, metric_type |-> 0, calc_type |-> 0,
                priority |-> 0]
    /\ sub_tlvs_bin_data = <<>>
    /\ sub_tlvs = <<>>

\* the interpreter has started; the main program is about to import
InitProcess ==
    /\ registered_tlvs = EmptyRegistry
    /\ sys_modules = {}
    /\ reloads = 0
    /\ main = "import"
    /\ threads = [k \in 1..NumCalls |-> NoCall]
    /\ call_idle
    /\ leaf_idle
    /\ aspath_idle
    /\ addpath_idle

\* the package executes module m for the first time
LoadModule(m) ==
    /\ main = "import"
    /\ m \notin sys_modules
    /\ sys_modules' = sys_modules \cup {m}
    /\ registered_tlvs' = load_module(registered_tlvs, m)
    /\ UNCHANGED <<reloads, main, threads>>
    /\ UNCHANGED <<wire, cls, data, pc, result, container_vars, leaf_vars,
                   aspath_vars, addpath_vars>>

\* a module already loaded is executed again (a duplicate module load)
ReloadModule(m) ==
    /\ main = "import"
    /\ m \in sys_modules
    /\ reloads < MaxReloads
    /\ reloads' = reloads + 1
    /\ registered_tlvs' = load_module(registered_tlvs, m)
    /\ UNCHANGED <<sys_modules, main, threads>>
    /\ UNCHANGED <<wire, cls, data, pc, result, container_vars, leaf_vars,
                   aspath_vars, addpath_vars>>

\* the import returns and the main program starts serving
ImportReturn ==
    /\ main = "import"
    /\ package_imported
    /\ main' = "serve"
    /\ UNCHANGED <<registered_tlvs, sys_modules, reloads, threads>>
    /\ UNCHANGED <<wire, cls, data, pc, result, container_vars, leaf_vars,
                   aspath_vars, addpath_vars>>

\* thread k's locals become l; nothing else is written
ThreadStep(k, l) ==
    /\ threads' = [threads EXCEPT ![k] = l]
    /\ UNCHANGED <<registered_tlvs, sys_modules, reloads, main>>
    /\ UNCHANGED <<wire, cls, data, pc, result, container_vars, leaf_vars,
                   aspath_vars, addpath_vars>>

\* thread k calls c.unpack(b) for a buffer of its own
Call(k) ==
    /\ main = "serve"
    /\ threads[k].pc = "idle"
    /\ \E arg \in CallPool : ThreadStep(k, Locals(arg.cls, arg.bytes))

\* thread k is inside c.unpack
Running(k, c) ==
    /\ threads[k].cls = c
    /\ threads[k].pc \notin {"idle", "done", "raised"}

AppSpecLinkAttrStep(k) ==
    /\ Running(k, "AppSpecLinkAttr")
    /\ \E l \in {AppSpecLinkAttr_step(frame(k))} : ThreadStep(k, l)

FlexAlgorithmDefineStep(k) ==
    /\ Running(k, "FlexAlgorithmDefine")
    /\ \E l \in {FlexAlgorithmDefine_step(frame(k))} : ThreadStep(k, l)

FlexAlgoExcludeAdminGroupStep(k) ==
    /\ Running(k, "FlexAlgoExcludeAdminGroup")
    /\ \E l \in {FlexAlgoExcludeAdminGroup_step(frame(k))} : ThreadStep(k, l)

FlexAlgoIncludeAnyAdminGroupStep(k) ==
    /\ Running(k, "FlexAlgoIncludeAnyAdminGroup")
    /\ \E l \in {FlexAlgoIncludeAnyAdminGroup_step(frame(k))} : ThreadStep(k, l)

FlexAlgoIncludeAllAdminGroupStep(k) ==
    /\ Running(k, "FlexAlgoIncludeAllAdminGroup")
    /\ \E l \in {FlexAlgoIncludeAllAdminGroup_step(frame(k))} : ThreadStep(k, l)

FlexAlgoExcludeSRLGStep(k) ==
    /\ Running(k, "FlexAlgoExcludeSRLG")
    /\ \E l \in {FlexAlgoExcludeSRLG_step(frame(k))} : ThreadStep(k, l)

FlexAlgoDefinitionFlagsStep(k) ==
    /\ Running(k, "FlexAlgoDefinitionFlags")
    /\ \E l \in {FlexAlgoDefinitionFlags_step(frame(k))} : ThreadStep(k, l)

MultiTopologyIdentifierStep(k) ==
    /\ Running(k, "MultiTopologyIdentifier")
    /\ \E l \in {MultiTopologyIdentifier_step(frame(k))} : ThreadStep(k, l)

NextProcess ==
    \/ \E m \in Modules : LoadModule(m)
    \/ \E m \in Modules : ReloadModule(m)
    \/ ImportReturn
    \/ \E k \in 1..NumCalls : Call(k)
    \/ \E k \in 1..NumCalls : AppSpecLinkAttrStep(k)
    \/ \E k \in 1..NumCalls : FlexAlgorithmDefineStep(k)
    \/ \E k \in 1..NumCalls : FlexAlgoExcludeAdminGroupStep(k)
    \/ \E k \in 1..NumCalls : FlexAlgoIncludeAnyAdminGroupStep(k)
    \/ \E k \in 1..NumCalls : FlexAlgoIncludeAllAdminGroupStep(k)
    \/ \E k \in 1..NumCalls : FlexAlgoExcludeSRLGStep(k)
    \/ \E k \in 1..NumCalls : FlexAlgoDefinitionFlagsStep(k)
    \/ \E k \in 1..NumCalls : MultiTopologyIdentifierStep(k)

SpecProcess == InitProcess /\ [][NextProcess]_vars

\* the process when its import has returned: the registry is filled, no
\* module was loaded twice and every thread is outside a call
InitServe ==
    /\ registered_tlvs = ImportedRegistry
    /\ sys_modules = Modules
    /\ reloads = 0
    /\ main = "serve"
    /\ threads = [k \in 1..NumCalls |-> NoCall]
    /\ call_idle
    /\ leaf_idle
    /\ aspath_idle
    /\ addpath_idle

\* the steps of the serving process: calls are made and run
NextServe ==
    \/ \E k \in 1..NumCalls : Call(k)
    \/ \E k \in 1..NumCalls : AppSpecLinkAttrStep(k)
    \/ \E k \in 1..NumCalls : FlexAlgorithmDefineStep(k)
    \/ \E k \in 1..NumCalls : FlexAlgoExcludeAdminGroupStep(k)
    \/ \E k \in 1..NumCalls : FlexAlgoIncludeAnyAdminGroupStep(k)
    \/ \E k \in 1..NumCalls : FlexAlgoIncludeAllAdminGroupStep(k)
    \/ \E k \in 1..NumCalls : FlexAlgoExcludeSRLGStep(k)
    \/ \E k \in 1..NumCalls : FlexAlgoDefinitionFlagsStep(k)
    \/ \E k \in 1..NumCalls : MultiTopologyIdentifierStep(k)

SpecServe == InitServe /\ [][NextServe]_vars

\* the interpreter keeps running: while some thread can take a step, a step
\* is taken eventually. No thread waits for another, so nothing stronger is
\* assumed of the scheduler.
SpecServeFair == SpecServe /\ WF_vars(NextServe)

\* ------------------------------------------------ add-path capability list
\* the address families of the add-path configuration
AddPathFamilies ==
    {"ipv4", "ipv6", "ipv4_lu", "ipv6_lu", "vpnv4", "vpnv6", "flowspec",
     "evpn", "bgpls", "ipv4_srte"}

AddPathModes == {"receive", "send", "both"}

\* the (afi, safi) pair of an address family name
afi_safi_pair(name) ==
    CASE name = "ipv4" -> <<1, 1>>
      [] name = "ipv6" -> <<2, 1>>
      [] name = "ipv4_lu" -> <<1, 4>>
      [] name = "ipv6_lu" -> <<2, 4>>
      [] name = "vpnv4" -> <<1, 128>>
      [] name = "vpnv6" -> <<2, 128>>
      [] name = "flowspec" -> <<1, 133>>
      [] name = "evpn" -> <<25, 70>>
      [] name = "bgpls" -> <<16388, 71>>
      [] name = "ipv4_srte" -> <<1, 73>>

\* the number of a send/receive mode
send_receive_int(mode) ==
    CASE mode = "receive" -> 1
      [] mode = "send" -> 2
      [] mode = "both" -> 3

\* the item built for one entry of the list: [(afi, safi), mode]
addpath_item(entry) ==
    <<afi_safi_pair(entry["afi_safi"]), send_receive_int(entry["send/receive"])>>

RECURSIVE convert_addpath_str_to_int_reversed(_)
\* mutant: each item is inserted at the front of the result
convert_addpath_str_to_int_reversed(l) ==
    IF l = <<>> THEN <<>>
    ELSE Append(convert_addpath_str_to_int_reversed(Tail(l)),
                addpath_item(Head(l)))

RECURSIVE convert_addpath_str_to_int(_)
\* convert_addpath_str_to_int(addpath_list): one item per entry, in order
convert_addpath_str_to_int(l) ==
    IF l = <<>> THEN <<>>
    ELSE <<addpath_item(Head(l))>> \o convert_addpath_str_to_int(Tail(l))

\* at most this many entries are in the list given
MaxAddPath == 2

\* {'afi_safi': name, 'send/receive': mode}
AddPathEntries ==
    { [key \in {"afi_safi", "send/receive"} |->
          IF key = "afi_safi" THEN name ELSE mode] :
      name \in AddPathFamilies, mode \in AddPathModes }

InitAddPath ==
    /\ registered_tlvs = ImportedRegistry
    /\ wire = [cls |-> "none"]
    /\ cls = "convert_addpath_str_to_int"
    /\ data = <<>>
    /\ pc = "call"
    /\ result = PyNone
    /\ sabm_len = 0
    /\ udabm_len = 0
    /\ offset = 0
    /\ sabm = PyNone
    /\ udabm = PyNone
    /\ fixed = [flex_algo |-> 0, metric_type |-> 0, calc_type |-> 0,
                priority |-> 0]
    /\ sub_tlvs_bin_data = <<>>
    /\ sub_tlvs = <<>>
    /\ leaf_idle
    /\ aspath_idle
    /\ process_idle
    /\ \E n \in 0..MaxAddPath : addpath_list \in [1..n -> AddPathEntries]
    /\ addpath_int = <<>>

\* result = convert_addpath_str_to_int(addpath_list)
ConvertAddPath ==
    /\ cls = "convert_addpath_str_to_int"
    /\ pc = "call"
    /\ addpath_int' = convert_addpath_str_to_int(addpath_list)
    /\ pc' = "done"
    /\ UNCHANGED <<registered_tlvs, wire, cls, data, result, addpath_list,
                   container_vars, leaf_vars, aspath_vars, process_vars>>

NextAddPath == ConvertAddPath

SpecAddPath == InitAddPath /\ [][NextAddPath]_vars

\* ------------------------------------------------------------------- claims
\* nothing was cut: data is the head followed by complete envelopes
Intact == wire.cut = 0

\* the bytes the first k envelopes occupy on the wire: 4 + L each
RECURSIVE Occupied(_, _)
Occupied(es, k) ==
    IF k = 0 THEN 0 ELSE Occupied(es, k - 1) + 4 + Len(es[k].value)

\* the entry one envelope alone yields: its type and exactly its value bytes
EntryOfEnvelope(e) ==
    IF e.type \in DOMAIN registered_tlvs
    THEN LET r == registered_unpack(registered_tlvs[e.type], e.value)
         IN  IF r.ok THEN TLV_dict(r.value) ELSE PyNone
    ELSE PyDict([type |-> PyInt(e.type),
                 value |-> PyStr(str_bytes(b2a_hex(e.value)))])

\* the registered decoder of envelope e rejects e's value
DecoderRejects(e) ==
    /\ e.type \in DOMAIN registered_tlvs
    /\ ~registered_unpack(registered_tlvs[e.type], e.value).ok

\* C1: when the sub-TLV region is a concatenation of n complete envelopes,
\* the cursor advances by 4 + L per envelope, the entries appear in wire
\* order, the i-th built from the i-th envelope's type and exactly its L
\* value bytes, and a container that is returned has exactly n entries; the
\* call raises only when the decoder of a registered envelope rejects its
\* own value.
C1_EnvelopesInWireOrder ==
    Intact =>
      LET n == Len(wire.envs)
          k == Len(sub_tlvs)
      IN  /\ pc \in {"loop", "done"} =>
                /\ k <= n
                /\ Len(data) - Len(sub_tlvs_bin_data)
                     = Len(wire.head) + Occupied(wire.envs, k)
                /\ sub_tlvs_bin_data = Envelopes(SubSeq(wire.envs, k + 1, n))
                /\ \A i \in 1..k : sub_tlvs[i] = EntryOfEnvelope(wire.envs[i])
          /\ pc = "done" =>
                /\ k = n
                /\ result.value.value.dict.sub_tlvs = PyList(sub_tlvs)
          /\ pc = "raised" => k < n /\ DecoderRejects(wire.envs[k + 1])

C1_Witness ==
    /\ Intact
    /\ pc = "done"
    /\ Len(wire.envs) = 2
    /\ Len(sub_tlvs) = 2
    /\ sub_tlvs[1] # sub_tlvs[2]
    /\ Len(wire.envs[1].value) # Len(wire.envs[2].value)

\* C2: an envelope whose type code is in the registry and whose value bytes
\* are all present yields the entry {'type': TYPE_STR of the registered
\* class, 'value': that class's decoder applied to exactly the envelope's
\* value bytes}; type 1043 yields 'flex_algo_defn_flags' with the M flag of
\* its own first byte; the bytes of the sibling envelopes stay in the cursor.
C2_RegisteredDispatch ==
    [][ (pc = "loop" /\ Len(sub_tlvs') = Len(sub_tlvs) + 1) =>
          LET bin == sub_tlvs_bin_data
              t == BigEndian(SubSeq(bin, 1, 2))
              l == BigEndian(SubSeq(bin, 3, 4))
              v == SubSeq(bin, 5, 4 + l)
              entry == sub_tlvs'[Len(sub_tlvs')]
          IN  (t \in DOMAIN registered_tlvs /\ 4 + l <= Len(bin)) =>
                LET c == registered_tlvs[t]
                    r == registered_unpack(c, v)
                IN  /\ r.ok
                    /\ entry = PyDict([type |-> PyStr(TYPE_STR(c)),
                                       value |-> r.value.value])
                    /\ t = 1043 =>
                         entry = PyDict(
                           [type |-> PyStr("flex_algo_defn_flags"),
                            value |-> PyDict(
                              [M |-> PyInt(IF v[1] >= 128 THEN 1 ELSE 0)])])
                    /\ t = 263 => entry.dict.type = PyStr("mt_id")
                    /\ sub_tlvs_bin_data' = SubSeq(bin, 5 + l, Len(bin))
      ]_vars

C2_Witness ==
    /\ pc = "loop"
    /\ Len(sub_tlvs) = 1
    /\ sub_tlvs[1] = PyDict([type |-> PyStr("flex_algo_defn_flags"),
                             value |-> PyDict([M |-> PyInt(1)])])
    /\ Len(sub_tlvs_bin_data) > 4

\* C3: in a container whose envelopes are complete and whose registered
\* envelopes are accepted by their decoders, envelopes of unregistered type
\* never make the decode fail: each contributes a record whose 'type' is the
\* numeric type code, and every sibling is decoded and present in wire order.
C3_UnknownTypeTolerated ==
    ( /\ Intact
      /\ \E i \in 1..Len(wire.envs) :
            wire.envs[i].type \notin DOMAIN registered_tlvs
      /\ \A i \in 1..Len(wire.envs) : ~DecoderRejects(wire.envs[i]) )
    => /\ pc # "raised"
       /\ pc = "done" =>
            /\ Len(sub_tlvs) = Len(wire.envs)
            /\ \A i \in 1..Len(wire.envs) :
                 IF wire.envs[i].type \in DOMAIN registered_tlvs
                 THEN sub_tlvs[i] = EntryOfEnvelope(wire.envs[i])
                 ELSE /\ sub_tlvs[i].dict.type = PyInt(wire.envs[i].type)
                      /\ DOMAIN sub_tlvs[i].dict = {"type", "value"}

C3_Witness ==
    /\ Intact
    /\ pc = "done"
    /\ Len(sub_tlvs) = 2
    /\ sub_tlvs[1].dict.type = PyInt(UnknownType)
    /\ sub_tlvs[2].dict.type = PyStr("flex_algo_defn")

\* the last envelope sent lost some, but not all, of its value bytes: its
\* header is whole and declares more bytes than remain after it
LastValueTruncated ==
    /\ wire.envs # <<>>
    /\ wire.cut > 0
    /\ wire.cut <= Len(wire.envs[Len(wire.envs)].value)

\* C4: a sub-TLV header that declares a length greater than the number of
\* bytes remaining after it makes the container decode fail, for every
\* sub-TLV type; no container is returned.
C4_TruncatedValueFails ==
    LastValueTruncated => pc # "done"

\* C5: when 1, 2 or 3 bytes remain in the sub-TLV region as the next header
\* is read, the decode raises (struct.error) and returns no value.
C5_TruncatedHeaderFails ==
    [][ (pc = "loop" /\ Len(sub_tlvs_bin_data) \in 1..3) =>
          (pc' = "raised" /\ result' = Raised("struct.error")) ]_vars

C5_Witness ==
    /\ pc = "raised"
    /\ Len(sub_tlvs_bin_data) \in 1..3
    /\ Len(sub_tlvs) >= 1
    /\ result = Raised("struct.error")

\* the value v of a sub-TLV of type t is one its decoder must reject: a
\* 1040/1041/1042/1044 value whose length is no multiple of 4, a 1043 value
\* of fewer than 2 bytes, a 263 value of odd length, or a container (1039
\* after its 4 fixed bytes, 1122 after its header and masks) one of whose
\* complete sub-TLVs is such a value
RECURSIVE MustReject(_, _)
RECURSIVE AnyMustReject(_)
AnyMustReject(region) ==
    /\ Len(region) >= 4
    /\ LET t == 256 * region[1] + region[2]
           l == 256 * region[3] + region[4]
       IN  /\ 4 + l <= Len(region)
           /\ \/ MustReject(t, SubSeq(region, 5, 4 + l))
              \/ AnyMustReject(SubSeq(region, 5 + l, Len(region)))

MustReject(t, v) ==
    CASE t \in {1040, 1041, 1042, 1044} -> Len(v) % 4 # 0
      [] t = 1043 -> Len(v) < 2
      [] t = 263 -> Len(v) % 2 # 0
      [] t = 1039 -> Len(v) >= 4 /\ AnyMustReject(SubSeq(v, 5, Len(v)))
      [] t = 1122 -> /\ Len(v) >= 4
                     /\ Len(v) >= 4 + v[1] + v[2]
                     /\ AnyMustReject(SubSeq(v, 5 + v[1] + v[2], Len(v)))
      [] OTHER -> FALSE

\* C6: if the registered decoder of a nested sub-TLV fails, at any nesting
\* depth, the enclosing decode fails as a whole: no container is returned,
\* neither with the failing sub-TLV skipped or defaulted nor with only the
\* sub-TLVs before it.
C6_NestedFailurePropagates ==
    ( /\ Intact
      /\ \E i \in 1..Len(wire.envs) :
            MustReject(wire.envs[i].type, wire.envs[i].value) )
    => /\ pc # "done"
       /\ pc = "loop" => sub_tlvs_bin_data # <<>>
       /\ pc = "raised" => ~result.ok

C6_Witness ==
    /\ Intact
    /\ pc = "raised"
    /\ Len(wire.envs) = 2
    /\ Len(sub_tlvs) = 1
    /\ wire.envs[2].type = AppSpecLinkAttr_TYPE
    /\ MustReject(wire.envs[2].type, wire.envs[2].value)

\* C7: if sabm_len or udabm_len declares more bytes than remain in the
\* buffer at that mask's offset, AppSpecLinkAttr.unpack fails, for every
\* declared length.
C7_MaskLengthExceedsData ==
    ( /\ cls = "AppSpecLinkAttr"
      /\ Len(data) >= 4
      /\ \/ data[1] > Len(data) - 4
         \/ data[1] + data[2] > Len(data) - 4 )
    => pc # "done"

\* C8: AppSpecLinkAttr.unpack fails for every input shorter than the 4-byte
\* fixed header.
C8_ShortHeaderFails ==
    (cls = "AppSpecLinkAttr" /\ Len(data) < 4) => pc # "done"

\* two lower-case hex characters per byte, most significant nibble first
HexPairs(b) ==
    [i \in 1..(2 * Len(b)) |->
        IF i % 2 = 1 THEN HexDigit[(b[(i + 1) \div 2] \div 16) + 1]
        ELSE HexDigit[(b[i \div 2] % 16) + 1]]

\* C9: for an ASLA buffer that holds its header and both masks, the output
\* has sabm.len = byte 0 and udabm.len = byte 1, the SABM rendered from
\* bytes [4, 4+sabm_len), the UDABM from [4+sabm_len, 4+sabm_len+udabm_len),
\* a mask value of None exactly when its len is 0, and the sub-TLVs decoded
\* from all bytes after offset 4+sabm_len+udabm_len.
C9_AslaLayout ==
    ( /\ cls = "AppSpecLinkAttr"
      /\ Len(data) >= 4
      /\ Len(data) >= 4 + data[1] + data[2] )
    => LET sl == data[1]
           ul == data[2]
           region == SubSeq(data, 5 + sl + ul, Len(data))
           mask(b) == IF b = <<>> THEN PyNone
                      ELSE PyStr(<<"0", "x">> \o HexPairs(b))
       IN  /\ pc # "raised" \/ Len(region) > 0
           /\ (pc = "loop" /\ sub_tlvs = <<>>) =>
                 /\ offset = 4 + sl + ul
                 /\ sub_tlvs_bin_data = region
           /\ pc = "done" =>
                LET out == result.value.value.dict
                    l == AppSpecLinkAttr_loop(region, <<>>)
                IN  /\ result.value.cls = "AppSpecLinkAttr"
                    /\ out.sabm.dict.len = PyInt(sl)
                    /\ out.udabm.dict.len = PyInt(ul)
                    /\ out.sabm.dict.value = mask(SubSeq(data, 5, 4 + sl))
                    /\ out.udabm.dict.value
                         = mask(SubSeq(data, 5 + sl, 4 + sl + ul))
                    /\ (out.sabm.dict.value = PyNone) <=> (sl = 0)
                    /\ (out.udabm.dict.value = PyNone) <=> (ul = 0)
                    /\ l.ok
                    /\ out.sub_tlvs = PyList(l.value)

C9_Witness ==
    /\ cls = "AppSpecLinkAttr"
    /\ pc = "done"
    /\ Intact
    /\ data[1] = 8
    /\ data[2] = 4
    /\ Len(sub_tlvs) = 2

\* C10: a mask whose bytes are all present is rendered as '0x' followed by
\* exactly 8 hex digits when its length is 4, exactly 16 when it is 8, and
\* exactly 2n digits for any other length n > 0: the digits of its bytes in
\* order, leading zeros kept and nothing added; the same rule for SABM and
\* UDABM.
C10_MaskRendering ==
    cls = "AppSpecLinkAttr" =>
      /\ ( /\ pc \in {"udabm", "loop", "done"}
           /\ sabm_len > 0
           /\ Len(data) >= 4 + sabm_len )
         => /\ sabm = PyStr(<<"0", "x">>
                            \o HexPairs(SubSeq(data, 5, 4 + sabm_len)))
            /\ Len(sabm.str) = 2 + 2 * sabm_len
            /\ sabm_len = 4 => Len(sabm.str) = 2 + 8
            /\ sabm_len = 8 => Len(sabm.str) = 2 + 16
      /\ ( /\ pc \in {"loop", "done"}
           /\ udabm_len > 0
           /\ Len(data) >= 4 + sabm_len + udabm_len )
         => /\ udabm = PyStr(<<"0", "x">>
                             \o HexPairs(SubSeq(data, 5 + sabm_len,
                                                4 + sabm_len + udabm_len)))
            /\ Len(udabm.str) = 2 + 2 * udabm_len
            /\ udabm_len = 4 => Len(udabm.str) = 2 + 8
            /\ udabm_len = 8 => Len(udabm.str) = 2 + 16

C10_Witness ==
    /\ cls = "AppSpecLinkAttr"
    /\ pc = "done"
    /\ sabm_len = 3
    /\ udabm_len = 8
    /\ sabm = PyStr(<<"0", "x", "0", "0", "0", "0", "f", "f">>)
    /\ Len(udabm.str) = 18

\* the offset at which segment j of a path starts when every ASN takes w
\* bytes: 2 + w * count bytes for each earlier segment
RECURSIVE SegmentStart(_, _, _)
SegmentStart(path, w, j) ==
    IF j <= 1 THEN 0
    ELSE SegmentStart(path, w, j - 1) + 2 + w * Len(path[j - 1][2])

\* bytes b hold the segments of path back to back, each as type byte, count
\* byte and its ASNs big-endian at w bytes
HoldsPath(b, path, w) ==
    /\ Len(b) = SegmentStart(path, w, Len(path) + 1)
    /\ \A s \in 1..Len(path) :
         LET at == SegmentStart(path, w, s)
         IN  /\ b[at + 1] = path[s][1]
             /\ b[at + 2] = Len(path[s][2])
             /\ \A k \in 1..Len(path[s][2]) :
                  BigEndian(SubSeq(b, at + 2 + w * (k - 1) + 1, at + 2 + w * k))
                    = path[s][2][k]

\* a parse call on a buffer from the wire, not on construct's output
ParseOfWire ==
    /\ cls = "ASPath"
    /\ wire.op = "parse"
    /\ fed = "none"

C12_BadSegmentTypeIsMalformed ==
    ( /\ ParseOfWire
      /\ wire.bad > 0
      /\ wire.bad = 1 \/ wire.enc4 = asn4
      /\ Len(data) >= SegmentStart(wire.path, ASPath_width(wire.enc4),
                                   wire.bad) + 2 )
    => /\ pc # "done"
       /\ Len(aspath) < wire.bad
       /\ pc = "raised" =>
            /\ result = UpdateMessageError(ERR_MSG_UPDATE_MALFORMED_ASPATH)
            /\ Len(aspath) = wire.bad - 1

C12_Witness ==
    /\ ParseOfWire
    /\ wire.bad = 2
    /\ wire.badtype = 5
    /\ pc = "raised"
    /\ Len(aspath) = 1
    /\ result = UpdateMessageError(ERR_MSG_UPDATE_MALFORMED_ASPATH)

\* the remaining buffer is cut inside a segment header, or holds a header
\* with a valid type whose count needs more bytes than remain
EndsInsideSegment ==
    \/ Len(value) = 1
    \/ /\ Len(value) >= 2
       /\ value[1] \in {1, 2, 3, 4}
       /\ Len(value) - 2 < value[2] * (IF asn4 THEN 4 ELSE 2)

\* C13: when exactly one byte remains where a segment header is due, or a
\* header with a valid type declares more ASNs than the remaining bytes hold
\* at the width of asn4, the pass raises UpdateMessageError with sub_error
\* ERR_MSG_UPDATE_ATTR_LEN and appends nothing.
C13_TruncatedSegmentIsAttrLen ==
    [][ (cls = "ASPath" /\ pc = "parse" /\ EndsInsideSegment)
        => /\ pc' = "raised"
           /\ result' = UpdateMessageError(ERR_MSG_UPDATE_ATTR_LEN)
           /\ aspath' = aspath ]_vars

C13_Witness ==
    /\ ParseOfWire
    /\ pc = "raised"
    /\ result = UpdateMessageError(ERR_MSG_UPDATE_ATTR_LEN)
    /\ asn4
    /\ Len(aspath) = 1
    /\ Len(value) >= 2
    /\ value[2] > 0
    /\ Len(value) - 2 >= 2 * value[2]
    /\ Len(value) - 2 < 4 * value[2]

\* C14: on a buffer made of n >= 0 complete segments with valid types, each
\* ASN at the width the asn4 flag selects, ASPath.parse never fails and
\* returns the n pairs (segment_type, asns) in wire order, every ASN the
\* big-endian value of its bytes; the empty buffer gives the empty list.
C14_ParsesCompleteSegments ==
    ( /\ ParseOfWire
      /\ wire.bad = 0
      /\ wire.cut = 0
      /\ wire.enc4 = asn4 )
    => /\ pc # "raised"
       /\ aspath = SubSeq(wire.path, 1, Len(aspath))
       /\ pc = "done" =>
            /\ result.value.list = aspath
            /\ Len(aspath) = Len(wire.path)
            /\ HoldsPath(data, aspath, IF asn4 THEN 4 ELSE 2)
            /\ data = <<>> => aspath = <<>>

C14_Witness ==
    /\ ParseOfWire
    /\ wire.bad = 0
    /\ wire.cut = 0
    /\ wire.enc4
    /\ asn4
    /\ pc = "done"
    /\ Len(wire.path) = 2
    /\ wire.path[1][1] # wire.path[2][1]
    /\ Len(wire.path[1][2]) = 2
    /\ result.value.list = wire.path

\* C15: ASPath.construct(value, asn4) returns the flag byte 0x40, the type
\* code 0x02 and a length byte equal to the number of body bytes, followed by
\* the segments in input order, each as its type byte, a count byte equal to
\* the number of its ASNs, and its ASNs big-endian at 2 bytes (asn4 false) or
\* 4 bytes (asn4 true).
C15_ConstructLayout ==
    (cls = "ASPath" /\ wire.op = "construct" /\ fed = "none")
    => /\ pc # "raised"
       /\ pc = "constructed" =>
            LET out == result.value.bytes
                body == SubSeq(out, 4, Len(out))
            IN  /\ Len(out) >= 3
                /\ out[1] = 64
                /\ out[2] = 2
                /\ out[3] = Len(body)
                /\ HoldsPath(body, wire.path, IF asn4 THEN 4 ELSE 2)

C15_Witness ==
    /\ cls = "ASPath"
    /\ wire.op = "construct"
    /\ pc = "constructed"
    /\ ~asn4
    /\ Len(wire.path) = 2
    /\ Len(wire.path[1][2]) = 3
    /\ result.value.bytes[3] = 14

\* the list of the big-endian values of the consecutive w-byte groups of b,
\* for Len(b) a multiple of w
GroupValues(b, w) ==
    [k \in 1..(Len(b) \div w) |->
        PyInt(BigEndian(SubSeq(b, w * (k - 1) + 1, w * k)))]

\* C16: for each of the decoders 1040, 1041, 1042 and 1044, an input of
\* length 4k (k >= 0) never fails and yields a list of exactly k entries,
\* the i-th the big-endian unsigned 32-bit value of bytes [4i, 4i+4), in
\* input order; each of the four decoders yields that same list.
C16_U32ListOfGroups ==
    (cls \in U32ListClasses /\ Len(wire.head) % 4 = 0)
    => /\ pc # "raised"
       /\ items = SubSeq(GroupValues(wire.head, 4), 1, Len(items))
       /\ range_i = 4 * Len(items)
       /\ pc = "done" =>
            /\ result = Returned(TLV_new(cls, PyList(GroupValues(wire.head, 4))))
            /\ Len(result.value.value.list) = Len(wire.head) \div 4
            /\ \A c \in U32ListClasses :
                 registered_unpack(c, wire.head).value.value
                   = result.value.value

C16_Witness ==
    /\ cls = "FlexAlgoExcludeSRLG"
    /\ pc = "done"
    /\ Len(wire.head) = 8
    /\ result.value.value.list = <<PyInt(128), PyInt(65280)>>

\* C17: for each of the decoders 1040, 1041, 1042 and 1044, an input whose
\* length is not a multiple of 4 makes unpack raise; it never returns a list,
\* neither of the complete leading groups nor with the last group padded.
C17_PartialGroupFails ==
    (cls \in U32ListClasses /\ Len(wire.head) % 4 # 0)
    => /\ pc # "done"
       /\ Len(items) <= Len(wire.head) \div 4
       /\ pc = "raised" =>
            /\ result = Raised("struct.error")
            /\ Len(items) = Len(wire.head) \div 4

C17_Witness ==
    /\ cls = "FlexAlgoIncludeAnyAdminGroup"
    /\ pc = "raised"
    /\ Len(wire.head) = 7
    /\ Len(items) = 1
    /\ result = Raised("struct.error")

\* C18: MultiTopologyIdentifier.unpack raises on every input of odd length;
\* it never returns the list of the complete leading 2-byte values.
C18_OddLengthFails ==
    (cls = "MultiTopologyIdentifier" /\ Len(wire.head) % 2 = 1)
    => /\ pc # "done"
       /\ pc = "raised" =>
            /\ result = Raised("struct.error")
            /\ Len(data) = 1
            /\ Len(items) = Len(wire.head) \div 2

C18_Witness ==
    /\ cls = "MultiTopologyIdentifier"
    /\ pc = "raised"
    /\ Len(wire.head) = 5
    /\ Len(items) = 2
    /\ result = Raised("struct.error")

\* C19: MultiTopologyIdentifier.unpack on an input of length 2k (k >= 0)
\* never fails and returns a list of exactly k entries in input order, the
\* i-th the raw big-endian unsigned 16-bit value of bytes [2i, 2i+2), the
\* reserved top bits included; the empty input gives the empty list.
C19_MtIdListOfPairs ==
    (cls = "MultiTopologyIdentifier" /\ Len(wire.head) % 2 = 0)
    => /\ pc # "raised"
       /\ items = SubSeq(GroupValues(wire.head, 2), 1, Len(items))
       /\ pc = "done" =>
            /\ result = Returned(TLV_new("MultiTopologyIdentifier",
                                         PyList(GroupValues(wire.head, 2))))
            /\ Len(result.value.value.list) = Len(wire.head) \div 2
            /\ wire.head = <<>> => result.value.value = PyList(<<>>)
            /\ wire.head = <<255, 255>>
                 => result.value.value = PyList(<<PyInt(65535)>>)

C19_Witness ==
    /\ cls = "MultiTopologyIdentifier"
    /\ pc = "done"
    /\ wire.head = <<255, 255, 0, 128>>
    /\ result.value.value = PyList(<<PyInt(65535), PyInt(128)>>)

\* C20: FlexAlgoDefinitionFlags.unpack on an input of at least 2 bytes
\* returns {'M': m} with m the most significant bit of the first byte, so m
\* is 0 or 1 and no other bit of the input changes the result.
C20_MFlagIsTopBit ==
    (cls = "FlexAlgoDefinitionFlags" /\ Len(wire.head) >= 2)
    => /\ pc # "raised"
       /\ pc = "done" =>
            /\ result = Returned(TLV_new("FlexAlgoDefinitionFlags",
                            PyDict([M |-> PyInt(IF wire.head[1] >= 128
                                                THEN 1 ELSE 0)])))
            /\ result.value.value.dict.M \in {PyInt(0), PyInt(1)}

C20_Witness ==
    /\ cls = "FlexAlgoDefinitionFlags"
    /\ pc = "done"
    /\ wire.head = <<128, 255, 255>>
    /\ result.value.value = PyDict([M |-> PyInt(1)])

\* C21: FlexAlgorithmDefine.unpack on an input of at least 4 bytes returns
\* flex_algo, metric_type, calc_type and priority equal to bytes 0, 1, 2 and
\* 3 as unsigned 8-bit values; a flex_algo outside 128..255 is returned
\* unchanged and never rejected (the call raises only when the sub-TLV loop
\* over the bytes from byte 4 onward raises); the sub-TLVs are decoded from
\* byte 4 onward.
C21_FadFixedFields ==
    (cls = "FlexAlgorithmDefine" /\ Len(data) >= 4) =>
      LET region == SubSeq(data, 5, Len(data))
          l == FlexAlgorithmDefine_loop(region, <<>>)
      IN  /\ pc \in {"loop", "done"} =>
                /\ fixed = [flex_algo |-> data[1], metric_type |-> data[2],
                            calc_type |-> data[3], priority |-> data[4]]
                /\ \A f \in DOMAIN fixed : fixed[f] \in 0..255
          /\ (pc = "loop" /\ sub_tlvs = <<>>) => sub_tlvs_bin_data = region
          /\ pc = "done" =>
                LET out == result.value.value.dict
                IN  /\ result.value.cls = "FlexAlgorithmDefine"
                    /\ out.flex_algo = PyInt(data[1])
                    /\ out.metric_type = PyInt(data[2])
                    /\ out.calc_type = PyInt(data[3])
                    /\ out.priority = PyInt(data[4])
                    /\ l.ok
                    /\ out.sub_tlvs = PyList(l.value)
          /\ pc = "raised" => ~l.ok

C21_Witness ==
    /\ cls = "FlexAlgorithmDefine"
    /\ pc = "done"
    /\ data[1] < 128
    /\ data[3] = 1
    /\ data[4] = 255
    /\ Len(sub_tlvs) = 2
    /\ result.value.value.dict.flex_algo = PyInt(data[1])

\* the classes the modules ms define
ClassesOf(ms) ==
    UNION { {ModuleClasses(m)[j] : j \in 1..Len(ModuleClasses(m))} : m \in ms }

\* the lookup table that depends on nothing but which modules were loaded
LookupTable(ms) ==
    [t \in {TYPE(c) : c \in ClassesOf(ms)} |->
        CHOOSE c \in ClassesOf(ms) : TYPE(c) = t]

\* C22: registering a type code that is already registered (a duplicate
\* load of a module of @LinkState.register() classes) changes the result of
\* lookup neither for that code nor for any other code, and the registry is
\* determined by which modules were loaded, whatever their order and number
\* of loads.
C22_ReRegistrationKeepsLookups ==
    [][ /\ \A t \in DOMAIN registered_tlvs :
              /\ t \in DOMAIN registered_tlvs'
              /\ registered_tlvs'[t] = registered_tlvs[t]
        /\ reloads' # reloads => registered_tlvs' = registered_tlvs
        /\ registered_tlvs' = LookupTable(sys_modules')
      ]_vars

C22_Witness ==
    /\ main = "import"
    /\ reloads = 1
    /\ sys_modules = {"flex_algo_define"}
    /\ DOMAIN registered_tlvs = 1039..1044
    /\ registered_tlvs[1043] = "FlexAlgoDefinitionFlags"

\* some decode call has started
Started == \E k \in 1..NumCalls : threads[k].pc # "idle"

C24_DecodeWritesOnlyLocals ==
    [][ \A k \in 1..NumCalls :
          threads'[k] # threads[k] =>
            /\ registered_tlvs' = registered_tlvs
            /\ sys_modules' = sys_modules
            /\ threads[k].pc # "idle" =>
                  /\ threads'[k].buffer = threads[k].buffer
                  /\ threads'[k].cls = threads[k].cls
            /\ \A j \in 1..NumCalls : j # k => threads'[j] = threads[j]
      ]_vars

C24_Witness ==
    /\ threads[1].cls = "MultiTopologyIdentifier"
    /\ threads[1].pc = "done"
    /\ threads[1].buffer = <<0, 2, 255, 255>>
    /\ threads[1].data = <<>>
    /\ threads[2].cls = "FlexAlgorithmDefine"
    /\ threads[2].pc = "raised"
    /\ Len(threads[2].sub_tlvs) = 1
    /\ registered_tlvs = ImportedRegistry

\* every call has returned or raised
AllCallsEnded ==
    \A k \in 1..NumCalls : threads[k].pc \in {"done", "raised"}

\* what the call with locals l yields when it runs on alone from where it is
RunsOnAlone(l) ==
    CASE l.cls = "AppSpecLinkAttr" /\ l.pc = "loop" ->
            AppSpecLinkAttr_return(
                l.sabm_len, l.sabm, l.udabm_len, l.udabm,
                AppSpecLinkAttr_loop(l.sub_tlvs_bin_data, l.sub_tlvs))
      [] l.cls = "FlexAlgorithmDefine" /\ l.pc = "loop" ->
            FlexAlgorithmDefine_return(
                l.fixed,
                FlexAlgorithmDefine_loop(l.sub_tlvs_bin_data, l.sub_tlvs))
      [] l.pc \in {"done", "raised"} -> l.result
      [] OTHER -> registered_unpack(l.cls, l.buffer)

\* C25: for decode calls on independent buffers whose steps interleave in
\* any order without locking, each call's outcome (value or failure) equals
\* the outcome of the same call run alone on the same bytes; at every point
\* of its loop a call holds its own cursor and its own partial sub_tlvs
\* list, from which running on alone gives that same outcome.
C25_CallsAreIsolated ==
    \A k \in 1..NumCalls :
        threads[k].pc # "idle" =>
            RunsOnAlone(threads[k])
              = registered_unpack(threads[k].cls, threads[k].buffer)

C25_Witness ==
    /\ threads[1].cls = "AppSpecLinkAttr"
    /\ threads[1].pc = "loop"
    /\ Len(threads[1].sub_tlvs) = 1
    /\ threads[1].sub_tlvs_bin_data # <<>>
    /\ threads[2].cls = "FlexAlgorithmDefine"
    /\ threads[2].pc = "loop"
    /\ Len(threads[2].sub_tlvs) = 1
    /\ threads[2].sub_tlvs_bin_data # <<>>
    /\ threads[1].sub_tlvs # threads[2].sub_tlvs

\* the value slice of the first sub-TLV in the cursor bin of a container
\* call, as the loop body cuts it
FirstValue(c, bin) ==
    IF c = "AppSpecLinkAttr"
    THEN AppSpecLinkAttr_sub_tlv_value(
             bin, AppSpecLinkAttr_sub_tlv_header(bin).value[2])
    ELSE FlexAlgorithmDefine_sub_tlv_value(
             bin, FlexAlgorithmDefine_sub_tlv_header(bin).value[2])

\* C29: every decode call on a finite buffer ends with a value or a failure.
\* Each pass of a sub-TLV loop either raises or leaves at least 4 bytes
\* fewer in the cursor, also for a zero-length sub-TLV; each MT-ID pass
\* leaves 2 bytes fewer; each pass over 4-byte groups moves the index on by
\* 4 below len(data); the value handed to a nested decoder (a container
\* inside a container included) is strictly shorter than the cursor it is
\* cut from, which is never longer than the buffer; and under fair
\* scheduling every call reaches its return or its exception.
C29_DecodeTerminates ==
    /\ [][ \A k \in 1..NumCalls :
              (threads[k].pc = "loop" /\ threads'[k] # threads[k]) =>
                LET l == threads[k]
                    n == threads'[k]
                IN  /\ n.pc \in {"loop", "done", "raised"}
                    /\ (l.cls \in Containers /\ n.pc = "loop") =>
                          /\ Len(n.sub_tlvs_bin_data) + 4
                                <= Len(l.sub_tlvs_bin_data)
                          /\ Len(n.sub_tlvs) = Len(l.sub_tlvs) + 1
                          /\ Len(FirstValue(l.cls, l.sub_tlvs_bin_data)) + 4
                                <= Len(l.sub_tlvs_bin_data)
                          /\ Len(l.sub_tlvs_bin_data) <= Len(l.buffer)
                    /\ (l.cls = "MultiTopologyIdentifier" /\ n.pc = "loop") =>
                          Len(n.data) + 2 = Len(l.data)
                    /\ (l.cls \in U32ListClasses /\ n.pc = "loop") =>
                          /\ n.range_i = l.range_i + 4
                          /\ l.range_i < Len(l.data)
          ]_vars
    /\ <>[]AllCallsEnded

C29_Witness ==
    /\ AllCallsEnded
    /\ threads[1].cls = "FlexAlgorithmDefine"
    /\ threads[1].pc = "done"
    /\ Len(threads[1].sub_tlvs) = 2
    /\ threads[1].sub_tlvs[1].dict.value = PyStr(<<"b", "'", "'">>)
    /\ threads[2].cls = "FlexAlgorithmDefine"
    /\ threads[2].pc = "raised"
    /\ threads[2].sub_tlvs[1].dict.type = PyStr("ASLA")

\* the numeric pair the capability table gives an address family name
FamilyPair(name) ==
    [ipv4 |-> <<1, 1>>, ipv6 |-> <<2, 1>>, ipv4_lu |-> <<1, 4>>,
     ipv6_lu |-> <<2, 4>>, vpnv4 |-> <<1, 128>>, vpnv6 |-> <<2, 128>>,
     flowspec |-> <<1, 133>>, evpn |-> <<25, 70>>, bgpls |-> <<16388, 71>>,
     ipv4_srte |-> <<1, 73>>][name]

\* C26: convert_addpath_str_to_int maps a list of {'afi_safi': name,
\* 'send/receive': mode} entries to a list of the same length and order
\* whose i-th item is [(afi, safi), m]: (afi, safi) the numeric pair of the
\* i-th name, m = 1 for 'receive', 2 for 'send', 3 for 'both'; the empty
\* list maps to the empty list.
C26_AddPathStrToInt ==
    (cls = "convert_addpath_str_to_int" /\ pc = "done") =>
        /\ Len(addpath_int) = Len(addpath_list)
        /\ \A j \in 1..Len(addpath_list) :
              /\ addpath_int[j][1] = FamilyPair(addpath_list[j]["afi_safi"])
              /\ addpath_int[j][2] =
                    [receive |-> 1, send |-> 2, both |-> 3][
                        addpath_list[j]["send/receive"]]
        /\ addpath_list = <<>> => addpath_int = <<>>

C26_Witness ==
    /\ cls = "convert_addpath_str_to_int"
    /\ pc = "done"
    /\ Len(addpath_list) = 2
    /\ addpath_list[1]["afi_safi"] = "bgpls"
    /\ addpath_list[1]["send/receive"] = "receive"
    /\ addpath_list[2]["afi_safi"] = "ipv4_srte"
    /\ addpath_list[2]["send/receive"] = "both"
    /\ addpath_int = << <<<<16388, 71>>, 1>>, <<<<1, 73>>, 3>> >>

\* C27: the fallback record produced for an unregistered sub-TLV type has a
\* 'value' that is exactly the lower-case hex string of the raw value bytes:
\* two hex characters per byte and no other character (de ad be ef gives
\* 'deadbeef', an empty value gives the empty string).
C27_FallbackIsPlainHex ==
    (Intact /\ cls \in Containers /\ pc = "done") =>
        \A j \in 1..Len(wire.envs) :
            wire.envs[j].type \notin DOMAIN registered_tlvs =>
                /\ sub_tlvs[j].dict.type = PyInt(wire.envs[j].type)
                /\ sub_tlvs[j].dict.value = PyStr(HexPairs(wire.envs[j].value))

\* the buffer d with its bytes at offsets 2 and 3 replaced by rsv
WithReserved(d, rsv) ==
    [j \in 1..Len(d) |->
        IF j = 3 THEN rsv[1] ELSE IF j = 4 THEN rsv[2] ELSE d[j]]

\* C28: the outcome of AppSpecLinkAttr.unpack does not depend on the two
\* reserved bytes at offsets 2 and 3: a buffer of length >= 4 and the
\* buffers that differ from it only in those bytes give the same outcome
\* (the same value, or the same failure), so a non-zero reserved field never
\* causes a failure.
C28_ReservedBytesIgnored ==
    (cls = "AppSpecLinkAttr" /\ Len(data) >= 4 /\ pc \in {"done", "raised"}) =>
        \A rsv \in {<<0, 0>>, <<1, 255>>} :
            result = AppSpecLinkAttr_unpack(WithReserved(data, rsv))

C28_Witness ==
    /\ cls = "AppSpecLinkAttr"
    /\ pc = "done"
    /\ Len(data) >= 4
    /\ data[3] = 255
    /\ data[4] = 1
    /\ Len(sub_tlvs) = 2
    /\ sabm_len = 4

====
